---- MODULE Spec2Model ----
(***************************************************************************)
(* Result-materialization engine of zmysql (package smysql and its        *)
(* package-level twin): column -> field mapping cache, NULL-safe scan      *)
(* adapters, row materializers, multi-result-set dispatch and the generic  *)
(* scalar / array / map retrieval functions.                               *)
(*                                                                         *)
(* Every entry point is one action.  The database side (prepare, execute,  *)
(* the cursor and database/sql's Rows.Scan conversions) is the input of    *)
(* the action, drawn from bounded sets.                                     *)
(***************************************************************************)
EXTENDS Integers, Sequences, FiniteSets, TLC

(***************************************************************************)
(* Bounds                                                                  *)
(***************************************************************************)
\* largest number of rows of a result set
MaxRows == 2
\* largest number of destinations handed to FindMultipleProc
MaxDest == 2
\* largest number of result sets a stored procedure yields
MaxSets == 3
\* largest number of arguments handed to a call
MaxArgs == 2
\* number of goroutines that share one client
MaxGoroutines == 2

\* F applied to the value of e, e being evaluated once
With(e, F(_)) == CHOOSE r \in {F(a) : a \in {e}} : TRUE

(***************************************************************************)
(* Text.  A Go string is a sequence of one-character strings, so that      *)
(* formatting and parsing are computed and not assumed.                    *)
(***************************************************************************)
Digits == <<"0", "1", "2", "3", "4", "5", "6", "7", "8", "9">>

IsDigit(c) == \E d \in 1..10 : Digits[d] = c

DigitVal(c) == (CHOOSE d \in 1..10 : Digits[d] = c) - 1

RECURSIVE DigitsOf(_)
DigitsOf(n) == IF n < 10 THEN <<Digits[n + 1]>>
               ELSE DigitsOf(n \div 10) \o <<Digits[(n % 10) + 1]>>

\* strconv.FormatInt(n, 10), which is also fmt.Sprintf("%d", n)
FormatInt(n) == IF n < 0 THEN <<"-">> \o DigitsOf(0 - n) ELSE DigitsOf(n)

RECURSIVE DigitsValue(_, _)
DigitsValue(s, acc) == IF s = <<>> THEN acc
                       ELSE DigitsValue(Tail(s), 10 * acc + DigitVal(Head(s)))

\* strconv.ParseInt(s, 10, 64): optional sign, then one or more digits and
\* nothing else
ParseInt(s) ==
  LET signed == s # <<>> /\ Head(s) \in {"-", "+"}
      body   == IF signed THEN Tail(s) ELSE s
      good   == body # <<>> /\ \A i \in 1..Len(body) : IsDigit(body[i])
  IN  IF ~good THEN [ok |-> FALSE, n |-> 0]
      ELSE [ok |-> TRUE,
            n  |-> IF signed /\ Head(s) = "-" THEN 0 - DigitsValue(body, 0)
                   ELSE DigitsValue(body, 0)]

RECURSIVE SkipSpace(_)
SkipSpace(s) == IF s # <<>> /\ Head(s) = " " THEN SkipSpace(Tail(s)) ELSE s

RECURSIVE DigitPrefix(_)
DigitPrefix(s) == IF s # <<>> /\ IsDigit(Head(s))
                  THEN <<Head(s)>> \o DigitPrefix(Tail(s)) ELSE <<>>

\* fmt.Sscanf(s, "%d", &val): leading blanks are skipped, an optional sign is
\* accepted and the longest run of digits is the number; what follows the
\* digits is left unread
Sscanf(s) ==
  LET t      == SkipSpace(s)
      signed == t # <<>> /\ Head(t) \in {"-", "+"}
      body   == IF signed THEN Tail(t) ELSE t
      tok    == DigitPrefix(body)
  IN  IF tok = <<>> THEN [ok |-> FALSE, n |-> 0]
      ELSE [ok |-> TRUE,
            n  |-> IF signed /\ Head(t) = "-" THEN 0 - DigitsValue(tok, 0)
                   ELSE DigitsValue(tok, 0)]

\* strconv.ParseBool
ParseBool(s) ==
  IF s \in {<<"1">>, <<"t">>, <<"T">>, <<"t", "r", "u", "e">>}
  THEN [ok |-> TRUE, b |-> TRUE]
  ELSE IF s \in {<<"0">>, <<"f">>, <<"F">>, <<"f", "a", "l", "s", "e">>}
  THEN [ok |-> TRUE, b |-> FALSE]
  ELSE [ok |-> FALSE, b |-> FALSE]

(***************************************************************************)
(* Values.  A value is [k, v] with k its representation.  A float is kept  *)
(* as a count of halves (3 is 1.5), a time as a day number, 0 being the    *)
(* zero time.                                                              *)
(***************************************************************************)
GoStr(s)   == [k |-> "string", v |-> s]
GoInt(n)   == [k |-> "int", v |-> n]
GoFloat(h) == [k |-> "float", v |-> h]
GoBool(b)  == [k |-> "bool", v |-> b]
GoTime(d)  == [k |-> "time", v |-> d]
\* SQL NULL, the driver's nil
NULL       == [k |-> "null", v |-> 0]

\* strconv.FormatFloat(f, 'g', -1, 64) on a count of halves
FormatFloat(h) ==
  LET a == IF h < 0 THEN 0 - h ELSE h
      s == IF h < 0 THEN <<"-">> ELSE <<>>
  IN  s \o DigitsOf(a \div 2) \o (IF a % 2 = 1 THEN <<".", "5">> ELSE <<>>)

\* strconv.ParseFloat on the texts of the model: an integer literal, or an
\* integer literal followed by ".5"
ParseFloat(s) ==
  LET n    == Len(s)
      half == n >= 3 /\ s[n - 1] = "." /\ s[n] = "5"
      int  == ParseInt(IF half THEN SubSeq(s, 1, n - 2) ELSE s)
      neg  == s # <<>> /\ Head(s) = "-"
  IN  IF ~int.ok THEN [ok |-> FALSE, h |-> 0]
      ELSE [ok |-> TRUE,
            h  |-> IF ~half THEN 2 * int.n
                   ELSE IF neg THEN 2 * int.n - 1 ELSE 2 * int.n + 1]

\* time.Time.Format(time.RFC3339Nano), reduced to the day number
FormatTime(d) == <<"d", "a", "y">> \o DigitsOf(d)

(***************************************************************************)
(* Record types: reflect.Type of the destination structs.  A field is      *)
(* [name, tag, kind]; tag is the db tag, "" when the field has none.       *)
(***************************************************************************)
IntKinds   == {"Int", "Int8", "Int16", "Int32", "Int64"}
UintKinds  == {"Uint", "Uint8", "Uint16", "Uint32", "Uint64"}
FloatKinds == {"Float32", "Float64"}
PrimitiveKinds == {"String", "Bool"} \cup IntKinds \cup UintKinds \cup FloatKinds

Types == {"City", "Stat", "Profile"}

Fields(t) ==
  IF t = "City"
  THEN << [name |-> "ID",    tag |-> "id",    kind |-> "Int64"],
          [name |-> "Name",  tag |-> "name",  kind |-> "String"],
          [name |-> "Note",  tag |-> "",      kind |-> "String"] >>
  ELSE IF t = "Stat"
  THEN << [name |-> "Level", tag |-> "level", kind |-> "Int8"],
          [name |-> "Count", tag |-> "count", kind |-> "Uint8"],
          [name |-> "Flag",  tag |-> "flag",  kind |-> "Bool"],
          [name |-> "Score", tag |-> "score", kind |-> "Float64"] >>
  ELSE << [name |-> "ID",        tag |-> "id",         kind |-> "Int64"],
          [name |-> "LastLogin", tag |-> "last_login", kind |-> "Time"],
          [name |-> "Remark",    tag |-> "",           kind |-> "String"] >>

NumField(t) == Len(Fields(t))

\* width of the integer kinds of the model, in bits
Bits(kind) == IF kind \in {"Int8", "Uint8"} THEN 8
              ELSE IF kind \in {"Int16", "Uint16"} THEN 16
              ELSE IF kind \in {"Int32", "Uint32"} THEN 32 ELSE 64

RECURSIVE Pow2(_)
Pow2(w) == IF w = 0 THEN 1 ELSE 2 * Pow2(w - 1)

\* reflect.Value.SetInt: the int64 is converted to the field's type, which
\* keeps the low bits (two's complement)
SetInt(kind, n) ==
  IF Bits(kind) = 64 THEN n
  ELSE LET m == Pow2(Bits(kind))
           r == n % m
       IN  IF r >= m \div 2 THEN r - m ELSE r

\* reflect.Value.SetUint: uint64 converted to the field's type
SetUint(kind, n) == IF Bits(kind) = 64 THEN n ELSE n % Pow2(Bits(kind))

\* the Go zero value of a kind
Zero(kind) ==
  IF kind = "String" THEN GoStr(<<>>)
  ELSE IF kind \in IntKinds \cup UintKinds THEN GoInt(0)
  ELSE IF kind \in FloatKinds THEN GoFloat(0)
  ELSE IF kind = "Bool" THEN GoBool(FALSE)
  ELSE GoTime(0)

\* reflect.New(t).Elem(): a struct with every field at its zero value
ZeroStruct(t) == [i \in 1..NumField(t) |-> Zero(Fields(t)[i].kind)]

(***************************************************************************)
(* Type Mapping Cache                                                      *)
(***************************************************************************)
\* the loop of getFieldsMapping: mapping[dbTag] = i for every field with a
\* non-empty db tag, a later field overwriting an earlier one of the same tag
\* (field ordinals are 1-based here, 0-based in Go)
buildMapping(t) ==
  LET tags == {Fields(t)[i].tag : i \in 1..NumField(t)} \ {""}
  IN  [tag \in tags |->
         CHOOSE i \in 1..NumField(t) :
           /\ Fields(t)[i].tag = tag
           /\ \A j \in 1..NumField(t) : Fields(t)[j].tag = tag => j <= i]

\* getFieldsMapping(t) of one caller: the cached entry when there is one,
\* else the mapping is built and stored.  cache is c.fields before the call.
getFieldsMapping(cache, t) ==
  IF t \in DOMAIN cache
  THEN [mapping |-> cache[t], fields |-> cache]
  ELSE [mapping |-> buildMapping(t),
        fields  |-> [u \in DOMAIN cache \cup {t} |->
                       IF u = t THEN buildMapping(t) ELSE cache[u]]]

(***************************************************************************)
(* Null-Safe Scan Adapter                                                  *)
(***************************************************************************)
\* createNullScanner: the type of the scan target of a field kind; "Ptr" is
\* reflect.New(fieldType), a plain pointer to a value of the field's type
createNullScanner(kind) ==
  IF kind = "String" THEN "NullString"
  ELSE IF kind \in IntKinds THEN "NullInt64"
  ELSE IF kind \in UintKinds THEN "NullInt64"
  ELSE IF kind \in FloatKinds THEN "NullFloat64"
  ELSE IF kind = "Bool" THEN "NullBool"
  ELSE "Ptr"

\* a scan target as the engine allocates it, before any row was scanned
NewScanner(type) ==
  [type  |-> type,
   valid |-> type = "Ptr",
   val   |-> IF type = "NullString" THEN GoStr(<<>>)
             ELSE IF type = "NullInt64" THEN GoInt(0)
             ELSE IF type = "NullFloat64" THEN GoFloat(0)
             ELSE IF type = "NullBool" THEN GoBool(FALSE)
             ELSE GoTime(0)]

\* database/sql asString: the text of a driver value
asString(cell) ==
  IF cell.k = "string" THEN cell.v
  ELSE IF cell.k = "int" THEN FormatInt(cell.v)
  ELSE IF cell.k = "float" THEN FormatFloat(cell.v)
  ELSE IF cell.k = "bool" THEN (IF cell.v THEN <<"t", "r", "u", "e">>
                                ELSE <<"f", "a", "l", "s", "e">>)
  ELSE FormatTime(cell.v)

\* database/sql convertAssign of one column of Rows.Scan into one scan
\* target: sql.NullString / NullInt64 / NullFloat64 / NullBool take NULL as
\* Valid = false and convert anything else into their value type; a plain
\* *time.Time takes a time.Time and nothing else, NULL included.
convertAssign(type, cell) ==
  LET fail == [err |-> TRUE, sc |-> NewScanner(type)]
      ok(val) == [err |-> FALSE, sc |-> [type |-> type, valid |-> TRUE, val |-> val]]
      null == [err |-> FALSE,
               sc  |-> [type |-> type, valid |-> FALSE, val |-> NewScanner(type).val]]
  IN  IF type = "Ptr"
      THEN IF cell.k = "time" THEN ok(cell) ELSE fail
      ELSE IF cell = NULL THEN null
      ELSE IF type = "NullString"
      THEN IF cell.k = "time" THEN ok(GoStr(FormatTime(cell.v)))
           ELSE ok(GoStr(asString(cell)))
      ELSE IF type = "NullInt64"
      THEN IF cell.k = "int" THEN ok(cell)
           ELSE IF cell.k = "time" THEN fail
           ELSE LET p == ParseInt(asString(cell))
                IN  IF p.ok THEN ok(GoInt(p.n)) ELSE fail
      ELSE IF type = "NullFloat64"
      THEN IF cell.k = "float" THEN ok(cell)
           ELSE IF cell.k = "time" THEN fail
           ELSE LET p == ParseFloat(asString(cell))
                IN  IF p.ok THEN ok(GoFloat(p.h)) ELSE fail
      ELSE \* NullBool: driver.Bool.ConvertValue
           IF cell.k = "bool" THEN ok(cell)
           ELSE IF cell.k = "int"
           THEN IF cell.v = 1 THEN ok(GoBool(TRUE))
                ELSE IF cell.v = 0 THEN ok(GoBool(FALSE)) ELSE fail
           ELSE IF cell.k = "string"
           THEN LET p == ParseBool(cell.v)
                IN  IF p.ok THEN ok(GoBool(p.b)) ELSE fail
           ELSE fail

\* rows.Scan(scanDest...): every column into its target, in column order;
\* the first column that does not convert is the error of the row
Scan(scanDest, row) ==
  IF Len(scanDest) # Len(row)
  THEN [err |-> TRUE, sc |-> [i \in 1..Len(scanDest) |-> NewScanner(scanDest[i])]]
  ELSE LET conv == [i \in 1..Len(scanDest) |-> convertAssign(scanDest[i], row[i])]
       IN  [err |-> \E i \in 1..Len(scanDest) : conv[i].err,
            sc  |-> [i \in 1..Len(scanDest) |-> conv[i].sc]]

\* what setFieldFromNullScanner does to the field: an error and no write,
\* a write of val, or neither
SetError(msg)  == [err |-> msg, set |-> FALSE, val |-> NULL]
SetStore(val)  == [err |-> <<>>, set |-> TRUE, val |-> val]
SetNothing     == [err |-> <<>>, set |-> FALSE, val |-> NULL]

\* storeUnsigned without the sign test
storeUnsigned_NoSignTest(kind, n) == SetStore(GoInt(SetUint(kind, n)))

\* the unsigned case of a valid sql.NullInt64: a negative value is refused,
\* anything else is stored with field.SetUint(uint64(s.Int64))
storeUnsigned(kind, n) ==
  IF n < 0 THEN SetError(<<"cannot convert negative value to unsigned type">>)
  ELSE SetStore(GoInt(SetUint(kind, n)))

\* setFieldFromNullScanner(field, scanner, fieldType): err is the error
\* (<<>> is nil), set tells whether the field was written and val is what
\* was written
setFieldFromNullScanner(scanner, kind) ==
  IF scanner.type = "NullString"
  THEN IF scanner.valid
       THEN IF kind # "String"
            THEN SetError(<<"cannot convert string to", kind>>)
            ELSE SetStore(scanner.val)
       ELSE SetStore(GoStr(<<>>))
  ELSE IF scanner.type = "NullInt64"
  THEN IF scanner.valid
       THEN IF kind \in IntKinds THEN SetStore(GoInt(SetInt(kind, scanner.val.v)))
            ELSE IF kind \in UintKinds THEN storeUnsigned(kind, scanner.val.v)
            ELSE SetError(<<"cannot convert int64 to", kind>>)
       ELSE IF kind \in IntKinds THEN SetStore(GoInt(0))
            ELSE IF kind \in UintKinds THEN SetStore(GoInt(0))
            ELSE SetNothing
  ELSE IF scanner.type = "NullFloat64"
  THEN IF scanner.valid
       THEN IF kind \notin FloatKinds
            THEN SetError(<<"cannot convert float64 to", kind>>)
            ELSE SetStore(scanner.val)
       ELSE SetStore(GoFloat(0))
  ELSE IF scanner.type = "NullBool"
  THEN IF scanner.valid
       THEN IF kind # "Bool"
            THEN SetError(<<"cannot convert bool to", kind>>)
            ELSE SetStore(scanner.val)
       ELSE SetStore(GoBool(FALSE))
  ELSE SetStore(scanner.val)

(***************************************************************************)
(* The database side: what prepare, execute and the cursor give back.      *)
(* A result set is [columns, rows, broken]: rows.Next() is true once per   *)
(* row of rows and then false; broken tells that this last false is an     *)
(* iteration error, which rows.Err() then reports.                         *)
(***************************************************************************)
Col(name, cells) == [name |-> name, cells |-> cells]

\* text as the driver hands it over
Txt(s) == GoStr(s)

\* the queries of the model, each a list of columns with the values the
\* column can hold
QueryCityPlain   == << Col("id", {NULL, GoInt(0 - 1), GoInt(7)}),
                       Col("name", {NULL, Txt(<<>>), Txt(<<"a">>)}) >>
QueryCityExtra   == << Col("name", {NULL, Txt(<<"a">>)}),
                       Col("extra", {NULL, Txt(<<"x">>)}),
                       Col("id", {GoInt(7), Txt(<<"a">>)}) >>
QueryStat        == << Col("level", {GoInt(1), GoInt(300)}),
                       Col("count", {GoInt(1)}),
                       Col("flag", {NULL, GoInt(1)}),
                       Col("score", {NULL, GoFloat(3)}) >>
QueryStatCount   == << Col("count", {NULL, GoInt(0 - 1), GoInt(1)}),
                       Col("level", {NULL, GoInt(0 - 1)}) >>
QueryStatLevel   == << Col("level", {GoInt(1)}),
                       Col("count", {GoInt(0 - 1), GoInt(1)}) >>
QueryProfile     == << Col("id", {NULL, GoInt(7)}),
                       Col("last_login", {NULL, GoTime(1)}) >>

\* the one-column queries of the scalar functions, and a two-column one
QueryOneInt      == << Col("id", {NULL, GoInt(0 - 1), GoInt(7)}) >>
QueryOneText     == << Col("name", {NULL, Txt(<<>>), Txt(<<"a">>), Txt(<<"7">>)}) >>

\* a key column and a value column
QueryPairs       == << Col("k", {NULL, GoInt(1), GoInt(2), Txt(<<"x">>)}),
                       Col("v", {NULL, Txt(<<"a">>)}) >>

\* the findMap calls of the model: key type, value type, keyField,
\* valueField and the query
MapCall(K, Y, keyField, valueField, q) ==
  [K |-> K, Y |-> Y, keyField |-> keyField, valueField |-> valueField, q |-> q]

MapCalls ==
  { MapCall("int64", "string", "k", "v", QueryPairs),
    MapCall("string", "string", "k", "v", QueryPairs),
    MapCall("string", "int64", "v", "k", QueryPairs),
    MapCall("int64", "string", "", "v", QueryPairs),
    MapCall("int64", "string", "nokey", "v", QueryPairs),
    MapCall("int64", "string", "k", "noval", QueryPairs),
    MapCall("int64", "string", "k", "", QueryPairs),
    MapCall("int64", "City", "id", "", QueryCityPlain),
    MapCall("string", "City", "name", "", QueryCityPlain),
    MapCall("int64", "City", "id", "name", QueryCityPlain) }

\* the queries a destination of record type t is filled from
QueriesOf(t) == IF t = "City" THEN {QueryCityPlain, QueryCityExtra}
                ELSE IF t = "Stat" THEN {QueryStat, QueryStatCount, QueryStatLevel}
                ELSE {QueryProfile}

AllCells(q) == UNION {q[i].cells : i \in 1..Len(q)}

RowsOf(q) == {r \in [1..Len(q) -> AllCells(q)] : \A i \in 1..Len(q) : r[i] \in q[i].cells}

SeqsUpTo(S, n) == UNION {[1..k -> S] : k \in 0..n}

ColumnsOf(q) == [i \in 1..Len(q) |-> q[i].name]

ResultSets(q, n) ==
  {[columns |-> ColumnsOf(q), rows |-> rows, broken |-> b] :
     rows \in SeqsUpTo(RowsOf(q), n), b \in BOOLEAN}

NoRows(q) == [columns |-> ColumnsOf(q), rows |-> <<>>, broken |-> FALSE]

\* the steps of a call before the first row that the driver can fail
FailPoints == {"prepare", "query", "columns"}

\* what the database does on one single-statement call: DB.Prepare,
\* stmt.Query or rows.Columns fails, or the cursor delivers a result set
Databases(q) ==
  {[fail |-> f, rs |-> NoRows(q)] : f \in FailPoints}
    \cup {[fail |-> "none", rs |-> rs] : rs \in ResultSets(q, MaxRows)}

ResultSet(columns, rows, broken) ==
  [columns |-> columns, rows |-> rows, broken |-> broken]

\* the result sets a stored procedure of the model yields: cities (none, one,
\* one before the cursor fails) and counts (a good one, a negative one)
ProcSets ==
  { ResultSet(<<"id", "name">>, <<>>, FALSE),
    ResultSet(<<"id", "name">>, << <<GoInt(7), Txt(<<"a">>)>> >>, FALSE),
    ResultSet(<<"id", "name">>, << <<NULL, Txt(<<"a">>)>> >>, TRUE),
    ResultSet(<<"count">>, << <<GoInt(1)>> >>, FALSE),
    ResultSet(<<"count">>, << <<GoInt(0 - 1)>> >>, FALSE) }

\* what the database does on a CALL: DB.Prepare, stmt.Query or the first
\* rows.Columns fails, or the cursor delivers one result set after the other
ProcDatabases ==
  {[fail |-> f, sets |-> << ResultSet(<<"id", "name">>, <<>>, FALSE) >>] : f \in FailPoints}
    \cup {[fail |-> "none", sets |-> ss] : ss \in SeqsUpTo(ProcSets, MaxSets) \ {<<>>}}

(***************************************************************************)
(* Row Materializer                                                        *)
(***************************************************************************)
\* something a call does to the trace sink, the database, its statement or
\* its cursor
Event(e, text, args) == [e |-> e, text |-> text, args |-> args]

\* a step on the cursor or the destination: "Columns", "Next:true",
\* "Next:false", "Scan", "Set", or one of these that fails, "Columns:error",
\* "Scan:error", "Set:error"
Step(e) == Event(e, <<>>, <<>>)

\* "if rows.Next()" followed by one more rows.Next()
fetchOnce_Again(rows) ==
  <<Step(IF rows # <<>> THEN "Next:true" ELSE "Next:false"),
    Step(IF Len(rows) > 1 THEN "Next:true" ELSE "Next:false")>>

\* "if rows.Next()" of the entry points that take the first row only
fetchOnce(rows) == <<Step(IF rows # <<>> THEN "Next:true" ELSE "Next:false")>>

\* a destination struct that was filled before the call
Dirty(t) ==
  [i \in 1..NumField(t) |->
     LET kind == Fields(t)[i].kind
     IN  IF kind = "String" THEN GoStr(<<"o", "l", "d">>)
         ELSE IF kind \in IntKinds \cup UintKinds THEN GoInt(9)
         ELSE IF kind \in FloatKinds THEN GoFloat(9)
         ELSE IF kind = "Bool" THEN GoBool(TRUE)
         ELSE GoTime(9)]

\* a destination of FindMultipleProc as the caller hands it in: a pointer
\* to a slice or to a struct of record type t, a pointer to an int, or a
\* struct passed by value
Dest(shape, t, val) == [shape |-> shape, t |-> t, val |-> val]

DestChoices ==
  { Dest("slice", "City", <<Dirty("City")>>),
    Dest("struct", "City", Dirty("City")),
    Dest("struct", "Stat", Dirty("Stat")),
    Dest("int", "", GoInt(9)) }

\* What a destination handed to Find or First is: "slice" a pointer to a
\* slice of a struct type, "sliceInt" a pointer to []int, "struct" a pointer
\* to a struct, "value" a struct passed by value.
\* destValue.Kind() == reflect.Ptr && destValue.Elem().Kind() == reflect.Slice
PointerToSlice(shape) == shape \in {"slice", "sliceInt"}

\* t.NumField() panics for a type that is not a struct
NumFieldPanics(t) == t \notin Types

\* a scan-target array with targets for the mapped columns only
makeScanDest_MappedOnly(columns, mapping, t) ==
  LET mapped == SelectSeq(columns, LAMBDA c : c \in DOMAIN mapping)
  IN  [i \in 1..Len(mapped) |-> createNullScanner(Fields(t)[mapping[mapped[i]]].kind)]

\* the scan-target array: one target per column, the target of the mapped
\* field's type, or a discarding sql.NullString for an unmapped column
makeScanDest(columns, mapping, t) ==
  [i \in 1..Len(columns) |->
     IF columns[i] \in DOMAIN mapping
     THEN createNullScanner(Fields(t)[mapping[columns[i]]].kind)
     ELSE "NullString"]

\* the loop "for i, col := range columns" that sets the mapped fields of item
\* from the scanned targets, from column i on; it stops at the first error
\* and item then keeps the fields set so far
RECURSIVE setFields(_, _, _, _, _, _)
setFields(item, i, columns, mapping, t, sc) ==
  IF i > Len(columns) THEN [err |-> <<>>, item |-> item]
  ELSE IF columns[i] \notin DOMAIN mapping
  THEN setFields(item, i + 1, columns, mapping, t, sc)
  ELSE LET fieldIndex == mapping[columns[i]]
           r == setFieldFromNullScanner(sc[i], Fields(t)[fieldIndex].kind)
       IN  IF r.err # <<>>
           THEN [err |-> <<"failed to set field", columns[i]>> \o r.err, item |-> item]
           ELSE setFields(IF r.set THEN [item EXCEPT ![fieldIndex] = r.val] ELSE item,
                          i + 1, columns, mapping, t, sc)

\* the row loop of scanRows from row k on, results being the accumulator
RECURSIVE scanLoop(_, _, _, _, _, _)
scanLoop(rows, k, results, columns, mapping, t) ==
  LET out(err, ev) == [err |-> err, results |-> results, ev |-> ev]
  IN  IF k > Len(rows) THEN out(<<>>, <<Step("Next:false")>>)
      ELSE With(Scan(makeScanDest(columns, mapping, t), rows[k]), LAMBDA s :
             IF s.err
             THEN out(<<"failed to scan row">>, <<Step("Next:true"), Step("Scan:error")>>)
             ELSE With(setFields(ZeroStruct(t), 1, columns, mapping, t, s.sc), LAMBDA f :
                    IF f.err # <<>>
                    THEN out(f.err, <<Step("Next:true"), Step("Scan"), Step("Set:error")>>)
                    ELSE With(scanLoop(rows, k + 1, Append(results, f.item),
                                       columns, mapping, t),
                              LAMBDA r :
                                [r EXCEPT !.ev = <<Step("Next:true"), Step("Scan"),
                                                   Step("Set")>> \o @])))

\* the caller's slice when scanRows returns, were the rows appended to it
\* as they are scanned
destAfter_Appended(err, results, dest0) == results

\* the caller's slice when scanRows returns: the rows are appended to the
\* local results, and destValue.Elem().Set(results) is its last statement
\* before return nil
destAfter(err, results, dest0) == IF err # <<>> THEN dest0 ELSE results

\* scanRows(rows, destValue, sliceElemType) on the current result set: dest
\* is the caller's slice after the call, fields the cache after the call
scanRows(rs, columnsFail, dest0, t, cache) ==
  LET out(err, dest, fields, panic, ev) ==
        [err |-> err, dest |-> dest, fields |-> fields, panic |-> panic, ev |-> ev]
  IN  IF columnsFail
      THEN out(<<"failed to get columns">>, dest0, cache, FALSE, <<Step("Columns:error")>>)
      ELSE IF NumFieldPanics(t) THEN out(<<>>, dest0, cache, TRUE, <<Step("Columns")>>)
      ELSE With(getFieldsMapping(cache, t), LAMBDA m :
             With(scanLoop(rs.rows, 1, <<>>, rs.columns, m.mapping, t), LAMBDA l :
               With(IF l.err # <<>> THEN l.err
                    ELSE IF rs.broken THEN <<"rows iteration error">>
                    ELSE <<>>,
                    LAMBDA e : out(e, destAfter(e, l.results, dest0), m.fields, FALSE,
                                   <<Step("Columns")>> \o l.ev))))

\* Find(dest, query, args...): shape is what dest is, t the element type of
\* the slice; panic is the run-time panic of reflect
FindResult(db, shape, dest0, t, cache) ==
  LET out(err) == [err |-> err, dest |-> dest0, fields |-> cache, panic |-> FALSE,
                   ev |-> <<>>]
  IN  IF ~PointerToSlice(shape) THEN out(<<"dest must be a pointer to a slice">>)
      ELSE IF db.fail = "prepare" THEN out(<<"failed to prepare query">>)
      ELSE IF db.fail = "query" THEN out(<<"failed to execute query">>)
      ELSE scanRows(db.rs, db.fail = "columns", dest0, t, cache)

\* First(dest, query, args...): shape is what dest is, t the struct type
FirstResult(db, shape, dest0, t, cache) ==
  LET out(err, found, dest, fields, ev) ==
        [err |-> err, found |-> found, dest |-> dest, fields |-> fields, ev |-> ev]
  IN  IF shape # "struct"
      THEN out(<<"dest must be a pointer to a struct">>, FALSE, dest0, cache, <<>>)
      ELSE IF db.fail = "prepare"
      THEN out(<<"failed to prepare query">>, FALSE, dest0, cache, <<>>)
      ELSE IF db.fail = "query"
      THEN out(<<"failed to execute query">>, FALSE, dest0, cache, <<>>)
      ELSE IF db.fail = "columns"
      THEN out(<<"failed to get columns">>, FALSE, dest0, cache, <<Step("Columns:error")>>)
      ELSE With(getFieldsMapping(cache, t), LAMBDA m :
             With(<<Step("Columns")>> \o fetchOnce(db.rs.rows), LAMBDA ev :
               IF db.rs.rows # <<>>
               THEN With(Scan(makeScanDest(db.rs.columns, m.mapping, t), db.rs.rows[1]),
                         LAMBDA s :
                    IF s.err
                    THEN out(<<"failed to scan row">>, FALSE, dest0, m.fields,
                             ev \o <<Step("Scan:error")>>)
                    ELSE With(setFields(dest0, 1, db.rs.columns, m.mapping, t, s.sc),
                              LAMBDA f :
                         IF f.err # <<>>
                         THEN out(f.err, FALSE, f.item, m.fields,
                                  ev \o <<Step("Scan"), Step("Set:error")>>)
                         ELSE out(<<>>, TRUE, f.item, m.fields,
                                  ev \o <<Step("Scan"), Step("Set")>>)))
               ELSE out(<<>>, FALSE, dest0, m.fields, ev)))

\* columnCountError that lets a wider result pass
columnCountError_AtLeastOne(columns) ==
  IF Len(columns) < 1
  THEN <<"expected a single column result, but got", Len(columns)>>
  ELSE <<>>

\* "if len(columns) != 1" of the scalar fetches: the error, <<>> when the
\* result has exactly one column
columnCountError(columns) ==
  IF Len(columns) # 1
  THEN <<"expected a single column result, but got", Len(columns)>>
  ELSE <<>>

\* FirstCol(dest, query, args...) with dest a pointer to a value of kind;
\* next counts the calls of rows.Next
FirstColResult(db, dest0, kind) ==
  LET out(err, found, dest, next, ev) ==
        [err |-> err, found |-> found, dest |-> dest, next |-> next, ev |-> ev]
  IN  IF db.fail = "prepare" THEN out(<<"failed to prepare query">>, FALSE, dest0, 0, <<>>)
      ELSE IF db.fail = "query"
      THEN out(<<"failed to execute query">>, FALSE, dest0, 0, <<>>)
      ELSE IF db.fail = "columns"
      THEN out(<<"failed to get columns">>, FALSE, dest0, 0, <<Step("Columns:error")>>)
      ELSE IF columnCountError(db.rs.columns) # <<>>
      THEN out(columnCountError(db.rs.columns), FALSE, dest0, 0, <<Step("Columns")>>)
      ELSE With(<<Step("Columns")>> \o fetchOnce(db.rs.rows), LAMBDA ev :
             IF db.rs.rows # <<>>
             THEN With(Scan(<<createNullScanner(kind)>>, db.rs.rows[1]), LAMBDA s :
                    IF s.err
                    THEN out(<<"failed to scan column">>, FALSE, dest0, 1,
                             ev \o <<Step("Scan:error")>>)
                    ELSE With(setFieldFromNullScanner(s.sc[1], kind), LAMBDA r :
                           IF r.err # <<>>
                           THEN out(<<"failed to set value">> \o r.err, FALSE, dest0, 1,
                                    ev \o <<Step("Scan"), Step("Set:error")>>)
                           ELSE out(<<>>, TRUE, IF r.set THEN r.val ELSE dest0, 1,
                                    ev \o <<Step("Scan"), Step("Set")>>)))
             ELSE out(<<>>, FALSE, dest0, 1, ev))

(***************************************************************************)
(* Multi-Result-Set Dispatcher                                             *)
(***************************************************************************)
\* rows.NextResultSet() after result set index of sets: true when another
\* result set follows; a cursor that failed inside the current result set is
\* closed and has no next one
NextResultSet(sets, index) == index < Len(sets) /\ ~sets[index].broken

\* endOfSets that wants every destination filled
endOfSets_WantsAll(index, n) ==
  IF index < n THEN <<"too few result sets, expected", n>> ELSE <<>>

\* the return after the loop was left with break: index is the last result
\* set handled, n is len(dest)
endOfSets(index, n) == <<>>

\* surplusError that lets the surplus pass
surplusError_Silent(n) == <<>>

\* the error for a result set that has no destination: index >= len(dest)
surplusError(n) == <<"too many result sets, expected", n>>

\* the single-record branch, were the new record put into the destination
\* before its fields are set
recordBranch_SetFirst(rs, columnsFail, dest0, t, cache) ==
  IF columnsFail
  THEN [err |-> <<"failed to get columns">>, dest |-> dest0, fields |-> cache]
  ELSE LET m == getFieldsMapping(cache, t)
       IN  IF rs.rows # <<>>
           THEN LET s == Scan(makeScanDest(rs.columns, m.mapping, t), rs.rows[1])
                IN  IF s.err
                    THEN [err |-> <<"failed to scan row">>, dest |-> dest0, fields |-> m.fields]
                    ELSE LET f == setFields(ZeroStruct(t), 1, rs.columns, m.mapping, t, s.sc)
                         IN  [err |-> f.err, dest |-> f.item, fields |-> m.fields]
           ELSE [err |-> <<>>, dest |-> dest0, fields |-> m.fields]

\* the single-record branch on one result set: the first row, when there is
\* one, makes a new record that replaces the destination
recordBranch(rs, columnsFail, dest0, t, cache) ==
  IF columnsFail
  THEN [err |-> <<"failed to get columns">>, dest |-> dest0, fields |-> cache]
  ELSE LET m == getFieldsMapping(cache, t)
       IN  IF rs.rows # <<>>
           THEN LET s == Scan(makeScanDest(rs.columns, m.mapping, t), rs.rows[1])
                IN  IF s.err
                    THEN [err |-> <<"failed to scan row">>, dest |-> dest0, fields |-> m.fields]
                    ELSE LET f == setFields(ZeroStruct(t), 1, rs.columns, m.mapping, t, s.sc)
                         IN  IF f.err # <<>>
                             THEN [err |-> f.err, dest |-> dest0, fields |-> m.fields]
                             ELSE [err |-> <<>>, dest |-> f.item, fields |-> m.fields]
           ELSE [err |-> <<>>, dest |-> dest0, fields |-> m.fields]

\* one result set into its destination: the slice branch through scanRows,
\* the record branch otherwise
dispatch(rs, columnsFail, shape, val, index, cache) ==
  IF shape.shape = "slice"
  THEN With(scanRows(rs, columnsFail, val, shape.t, cache),
            LAMBDA x : [x EXCEPT !.err = IF x.err = <<>> THEN <<>>
                                           ELSE <<"failed to scan result set", index - 1>>
                                                  \o x.err])
  ELSE recordBranch(rs, columnsFail, val, shape.t, cache)

\* the loop "for index := 0; ; index++" of FindMultipleProc from result set
\* index on (1-based; the messages carry Go's 0-based index); shapes are the
\* destinations as handed in, vals their values so far
RECURSIVE multiLoop(_, _, _, _, _, _)
multiLoop(index, sets, columnsFail, shapes, vals, cache) ==
  LET out(err, v, c) == [err |-> err, dest |-> v, fields |-> c]
      n == Len(shapes)
  IN  IF index > n THEN out(surplusError(n), vals, cache)
      ELSE IF shapes[index].shape = "value"
      THEN out(<<"dest must be a pointer", index - 1>>, vals, cache)
      ELSE IF shapes[index].shape \notin {"slice", "struct"}
      THEN out(<<"dest must be a pointer to a struct or slice", index - 1>>, vals, cache)
      ELSE With(dispatch(sets[index], columnsFail /\ index = 1, shapes[index],
                         vals[index], index, cache),
                LAMBDA r :
                  With([vals EXCEPT ![index] = r.dest],
                       LAMBDA after :
                         IF r.err # <<>> THEN out(r.err, after, r.fields)
                         ELSE IF ~NextResultSet(sets, index)
                         THEN out(endOfSets(index, n), after, r.fields)
                         ELSE multiLoop(index + 1, sets, columnsFail, shapes,
                                        after, r.fields)))

\* FindMultipleProc(dest, procName, args...)
FindMultipleProcResult(db, shapes, cache) ==
  LET vals == [i \in 1..Len(shapes) |-> shapes[i].val]
  IN  IF Len(shapes) = 0
      THEN [err |-> <<"dest cannot be empty">>, dest |-> vals, fields |-> cache]
      ELSE IF db.fail = "prepare"
      THEN [err |-> <<"failed to prepare query">>, dest |-> vals, fields |-> cache]
      ELSE IF db.fail = "query"
      THEN [err |-> <<"failed to execute query">>, dest |-> vals, fields |-> cache]
      ELSE multiLoop(1, db.sets, db.fail = "columns", shapes, vals, cache)

(***************************************************************************)
(* Generic scalar retrieval                                                *)
(***************************************************************************)
\* the element types of the generic functions: T int64 | string
ElemTypes == {"int64", "string"}

\* var zero T
ZeroOf(T) == IF T = "int64" THEN GoInt(0) ELSE GoStr(<<>>)

\* the scan target the generic functions declare for T
ScannerOf(T) == IF T = "int64" THEN "NullInt64" ELSE "NullString"

\* firstColValue with a NULL reported as "no row"
firstColValue_NullNotFound(sc, T) ==
  IF sc.valid THEN [val |-> sc.val, found |-> TRUE]
  ELSE [val |-> ZeroOf(T), found |-> FALSE]

\* the end of firstColAny's row branch: a valid target gives its value, a
\* NULL gives the zero value, both with found = true
firstColValue(sc, T) ==
  IF sc.valid THEN [val |-> sc.val, found |-> TRUE]
  ELSE [val |-> ZeroOf(T), found |-> TRUE]

\* firstColAny[T](client, query, args...); next counts the calls of
\* rows.Next
firstColAnyResult(db, T) ==
  LET out(val, found, err, next, ev) ==
        [val |-> val, found |-> found, err |-> err, next |-> next, ev |-> ev]
      columns == db.rs.columns
  IN  IF db.fail = "prepare"
      THEN out(ZeroOf(T), FALSE, <<"failed to prepare query">>, 0, <<>>)
      ELSE IF db.fail = "query"
      THEN out(ZeroOf(T), FALSE, <<"failed to execute query">>, 0, <<>>)
      ELSE IF db.fail = "columns"
      THEN out(ZeroOf(T), FALSE, <<"failed to get columns">>, 0, <<Step("Columns:error")>>)
      ELSE IF columnCountError(columns) # <<>>
      THEN out(ZeroOf(T), FALSE, columnCountError(columns), 0, <<Step("Columns")>>)
      ELSE With(<<Step("Columns")>> \o fetchOnce(db.rs.rows), LAMBDA ev :
             IF db.rs.rows # <<>>
             THEN With(Scan(<<ScannerOf(T)>>, db.rs.rows[1]), LAMBDA s :
                    IF s.err
                    THEN out(ZeroOf(T), FALSE, <<"failed to scan column">>, 1,
                             ev \o <<Step("Scan:error")>>)
                    ELSE With(firstColValue(s.sc[1], T), LAMBDA x :
                           out(x.val, x.found, <<>>, 1,
                               ev \o <<Step("Scan"), Step("Set")>>)))
             ELSE out(ZeroOf(T), FALSE, <<>>, 1, ev))

(***************************************************************************)
(* Generic array retrieval                                                 *)
(***************************************************************************)
\* fieldIndexOf with the index starting at the first column instead of -1
fieldIndexOf_DefaultsToFirst(columns, fieldName) ==
  IF \E i \in 1..Len(columns) : columns[i] = fieldName
  THEN CHOOSE i \in 1..Len(columns) :
         /\ columns[i] = fieldName
         /\ \A j \in 1..(i - 1) : columns[j] # fieldName
  ELSE 1

\* the search for fieldName in the column list: the first column of that
\* name, 0 standing for Go's -1
fieldIndexOf(columns, fieldName) ==
  IF \E i \in 1..Len(columns) : columns[i] = fieldName
  THEN CHOOSE i \in 1..Len(columns) :
         /\ columns[i] = fieldName
         /\ \A j \in 1..(i - 1) : columns[j] # fieldName
  ELSE 0

\* the scan targets of findArray: the target of T at fieldIndex, a
\* discarding sql.NullString everywhere else
arrayScanDest(columns, fieldIndex, T) ==
  [i \in 1..Len(columns) |-> IF i = fieldIndex THEN ScannerOf(T) ELSE "NullString"]

\* appendValid with a NULL appended as the zero value
appendValid_KeepsNull(results, sc) == Append(results, sc.val)

\* what one scanned row adds to results: its value when valid, nothing when
\* NULL
appendValid(results, sc) == IF sc.valid THEN Append(results, sc.val) ELSE results

\* the row loop of findArray from row k on
RECURSIVE arrayLoop(_, _, _, _, _, _)
arrayLoop(rows, k, results, columns, fieldIndex, T) ==
  IF k > Len(rows) THEN [err |-> <<>>, results |-> results]
  ELSE LET s == Scan(arrayScanDest(columns, fieldIndex, T), rows[k])
       IN  IF s.err THEN [err |-> <<"failed to scan row">>, results |-> results]
           ELSE arrayLoop(rows, k + 1, appendValid(results, s.sc[fieldIndex]),
                          columns, fieldIndex, T)

\* a nil slice or map
Nil == [k |-> "nil", v |-> <<>>]
\* a non-nil slice
Slice(seq) == [k |-> "slice", v |-> seq]

\* the tail of findArray: no element gives nil, else the slice
arrayOrNil(results) == IF Len(results) = 0 THEN Nil ELSE Slice(results)

\* findArray[T](client, fieldName, query, args...)
findArrayResult(db, fieldName, T) ==
  LET out(val, err) == [val |-> val, err |-> err]
      columns == db.rs.columns
      fieldIndex == fieldIndexOf(columns, fieldName)
  IN  IF db.fail = "prepare" THEN out(Nil, <<"failed to prepare query">>)
      ELSE IF db.fail = "query" THEN out(Nil, <<"failed to execute query">>)
      ELSE IF db.fail = "columns" THEN out(Nil, <<"failed to get columns">>)
      ELSE IF fieldIndex = 0
      THEN out(Nil, <<"field not found in query results", fieldName>>)
      ELSE LET l == arrayLoop(db.rs.rows, 1, <<>>, columns, fieldIndex, T)
           IN  IF l.err # <<>> THEN out(Nil, l.err)
               ELSE IF db.rs.broken THEN out(Nil, <<"rows iteration error">>)
               ELSE out(arrayOrNil(l.results), <<>>)

(***************************************************************************)
(* Generic map retrieval                                                   *)
(***************************************************************************)
\* the search for keyField and valueField, a loop without break: the last
\* column of that name, 0 standing for Go's -1
lastIndexOf(columns, name) ==
  IF \E i \in 1..Len(columns) : columns[i] = name
  THEN CHOOSE i \in 1..Len(columns) :
         /\ columns[i] = name
         /\ \A j \in (i + 1)..Len(columns) : columns[j] # name
  ELSE 0

\* var zero Y, for Y int64, string or a record type
ZeroOfY(Y) == IF Y \in ElemTypes THEN ZeroOf(Y) ELSE ZeroStruct(Y)

\* keyOf with a NULL key kept as the zero key
keyOf_NullAsZero(sc, K) ==
  IF sc.type = "NullString"
  THEN IF K = "string" THEN [valid |-> TRUE, key |-> sc.val]
       ELSE LET p == Sscanf(sc.val.v)
            IN  [valid |-> TRUE, key |-> IF p.ok THEN GoInt(p.n) ELSE ZeroOf(K)]
  ELSE IF sc.type = "NullInt64"
  THEN IF K = "int64" THEN [valid |-> TRUE, key |-> sc.val]
       ELSE [valid |-> TRUE, key |-> GoStr(FormatInt(sc.val.v))]
  ELSE [valid |-> FALSE, key |-> ZeroOf(K)]

\* the key of a scanned row ("switch s := keyScanner.(type)"): keyValid and
\* key.  A valid text key of an int64 map is parsed with Sscanf and the key
\* stays zero when that fails; a target that is neither sql.NullString nor
\* sql.NullInt64 leaves keyValid false.
keyOf(sc, K) ==
  IF sc.type = "NullString"
  THEN IF sc.valid
       THEN IF K = "string" THEN [valid |-> TRUE, key |-> sc.val]
            ELSE LET p == Sscanf(sc.val.v)
                 IN  [valid |-> TRUE, key |-> IF p.ok THEN GoInt(p.n) ELSE ZeroOf(K)]
       ELSE [valid |-> FALSE, key |-> ZeroOf(K)]
  ELSE IF sc.type = "NullInt64"
  THEN IF sc.valid
       THEN IF K = "int64" THEN [valid |-> TRUE, key |-> sc.val]
            ELSE [valid |-> TRUE, key |-> GoStr(FormatInt(sc.val.v))]
       ELSE [valid |-> FALSE, key |-> ZeroOf(K)]
  ELSE [valid |-> FALSE, key |-> ZeroOf(K)]

\* the value of a scanned row in the named-field branch, from the
\* sql.NullString at valueIndex
valueOf(sc, Y) ==
  IF sc.valid
  THEN IF Y = "string" THEN sc.val
       ELSE IF Y = "int64"
       THEN LET p == Sscanf(sc.val.v)
            IN  IF p.ok THEN GoInt(p.n) ELSE ZeroOfY(Y)
       ELSE ZeroOfY(Y)
  ELSE ZeroOfY(Y)

\* result[key] = value
MapPut(m, key, value) ==
  [x \in DOMAIN m \cup {key} |-> IF x = key THEN value ELSE m[x]]

\* a non-nil map
Map(m) == [k |-> "map", v |-> m]

\* the scan targets of one row of findMap
mapScanDest(columns, mapping, Y, structMode) ==
  IF structMode THEN makeScanDest(columns, mapping, Y)
  ELSE [i \in 1..Len(columns) |-> "NullString"]

\* the row loop of findMap from row k on.  panic is the index-out-of-range
\* of scanDest[valueIndex] with valueIndex = -1.
RECURSIVE mapLoop(_, _, _, _, _, _, _, _, _)
mapLoop(rows, k, result, columns, mapping, keyIndex, valueIndex, K, Y) ==
  LET structMode == valueIndex = 0 /\ Y \in Types
      out(err, panic) == [err |-> err, panic |-> panic, result |-> result]
  IN  IF k > Len(rows) THEN out(<<>>, FALSE)
      ELSE LET s == Scan(mapScanDest(columns, mapping, Y, structMode), rows[k])
           IN  IF s.err THEN out(<<"failed to scan row">>, FALSE)
               ELSE LET key == keyOf(s.sc[keyIndex], K)
                    IN  IF ~key.valid
                        THEN mapLoop(rows, k + 1, result, columns, mapping,
                                     keyIndex, valueIndex, K, Y)
                        ELSE IF structMode
                        THEN LET f == setFields(ZeroStruct(Y), 1, columns, mapping, Y, s.sc)
                             IN  IF f.err # <<>> THEN out(f.err, FALSE)
                                 ELSE mapLoop(rows, k + 1, MapPut(result, key.key, f.item),
                                              columns, mapping, keyIndex, valueIndex, K, Y)
                        ELSE IF valueIndex = 0 THEN out(<<>>, TRUE)
                        ELSE mapLoop(rows, k + 1,
                                     MapPut(result, key.key, valueOf(s.sc[valueIndex], Y)),
                                     columns, mapping, keyIndex, valueIndex, K, Y)

\* findMap[T, Y](client, keyField, valueField, query, args...), K being the
\* key type T
findMapResult(db, keyField, valueField, K, Y, cache) ==
  LET out(val, err, panic, fields) ==
        [val |-> val, err |-> err, panic |-> panic, fields |-> fields]
      columns    == db.rs.columns
      keyIndex   == lastIndexOf(columns, keyField)
      valueIndex == IF valueField # "" THEN lastIndexOf(columns, valueField) ELSE 0
  IN  IF keyField = ""
      THEN out(Nil, <<"keyField cannot be empty">>, FALSE, cache)
      ELSE IF db.fail = "prepare"
      THEN out(Nil, <<"failed to prepare query">>, FALSE, cache)
      ELSE IF db.fail = "query"
      THEN out(Nil, <<"failed to execute query">>, FALSE, cache)
      ELSE IF db.fail = "columns"
      THEN out(Nil, <<"failed to get columns">>, FALSE, cache)
      ELSE IF keyIndex = 0
      THEN out(Nil, <<"key field not found in query results", keyField>>, FALSE, cache)
      ELSE IF valueField # "" /\ valueIndex = 0
      THEN out(Nil, <<"value field not found in query results", valueField>>, FALSE, cache)
      ELSE LET m == IF Y \in Types THEN getFieldsMapping(cache, Y)
                    ELSE [mapping |-> <<>>, fields |-> cache]
               l == mapLoop(db.rs.rows, 1, <<>>, columns, m.mapping,
                            keyIndex, valueIndex, K, Y)
           IN  IF l.panic THEN out(Nil, <<>>, TRUE, m.fields)
               ELSE IF l.err # <<>> THEN out(Nil, l.err, FALSE, m.fields)
               ELSE IF db.rs.broken
               THEN out(Nil, <<"rows iteration error">>, FALSE, m.fields)
               ELSE IF DOMAIN l.result = {} THEN out(Nil, <<>>, FALSE, m.fields)
               ELSE out(Map(l.result), <<>>, FALSE, m.fields)

(***************************************************************************)
(* Raw rows as JSON                                                        *)
(***************************************************************************)
\* IS_LIST_TYPE
HAS_ONE  == 1
HAS_LIST == 2

\* the byte of a character of the model's texts
Ascii(c) ==
  CASE c = "7" -> 55
    [] c = "a" -> 97
    [] c = "x" -> 120

\* the alphabet of base64.StdEncoding
Base64Chars ==
  << "A", "B", "C", "D", "E", "F", "G", "H", "I", "J", "K", "L", "M", "N", "O", "P",
     "Q", "R", "S", "T", "U", "V", "W", "X", "Y", "Z", "a", "b", "c", "d", "e", "f",
     "g", "h", "i", "j", "k", "l", "m", "n", "o", "p", "q", "r", "s", "t", "u", "v",
     "w", "x", "y", "z", "0", "1", "2", "3", "4", "5", "6", "7", "8", "9", "+", "/" >>

\* base64.StdEncoding of a byte string: three bytes give four characters, a
\* last group of one or two bytes is padded with "="
RECURSIVE Base64(_)
Base64(s) ==
  LET b(i) == Ascii(s[i])
      ch(n) == Base64Chars[n + 1]
  IN  IF Len(s) = 0 THEN <<>>
      ELSE IF Len(s) = 1
      THEN <<ch(b(1) \div 4), ch((b(1) % 4) * 16), "=", "=">>
      ELSE IF Len(s) = 2
      THEN <<ch(b(1) \div 4), ch((b(1) % 4) * 16 + b(2) \div 16),
             ch((b(2) % 16) * 4), "=">>
      ELSE <<ch(b(1) \div 4), ch((b(1) % 4) * 16 + b(2) \div 16),
             ch((b(2) % 16) * 4 + b(3) \div 64), ch(b(3) % 64)>>
             \o Base64(SubSeq(s, 4, Len(s)))

\* json.Marshal of a value scanned into an interface: nil is null, an int64
\* is its decimal text, a []byte (every text column of the driver) is the
\* quoted base64 of its bytes
marshalValue(cell) ==
  IF cell = NULL THEN <<"null">>
  ELSE IF cell.k = "int" THEN FormatInt(cell.v)
  ELSE <<"\"">> \o Base64(cell.v) \o <<"\"">>

\* rowMap: rowMap[col] = rowData[i] in column order, a repeated column name
\* keeping its last value
rowMap(columns, row) ==
  [col \in {columns[i] : i \in 1..Len(columns)} |->
     row[CHOOSE i \in 1..Len(columns) :
           /\ columns[i] = col
           /\ \A j \in (i + 1)..Len(columns) : columns[j] # col]]

\* the column names of the model in the byte order json.Marshal sorts map
\* keys in
KeyOrder == <<"count", "extra", "flag", "id", "k", "last_login", "level", "name",
              "score", "v">>

\* json.Marshal of a map[string]any; a key is one token of the text
RECURSIVE marshalKeys(_, _, _)
marshalKeys(m, i, first) ==
  IF i > Len(KeyOrder) THEN <<>>
  ELSE IF KeyOrder[i] \notin DOMAIN m THEN marshalKeys(m, i + 1, first)
  ELSE (IF first THEN <<>> ELSE <<",">>)
         \o <<"\"", KeyOrder[i], "\"", ":">> \o marshalValue(m[KeyOrder[i]])
         \o marshalKeys(m, i + 1, FALSE)

marshalMap(m) == <<"{">> \o marshalKeys(m, 1, TRUE) \o <<"}">>

RECURSIVE marshalElems(_, _)
marshalElems(list, i) ==
  IF i > Len(list) THEN <<>>
  ELSE (IF i = 1 THEN <<>> ELSE <<",">>) \o marshalMap(list[i])
         \o marshalElems(list, i + 1)

\* json.Marshal of resultData, a []map[string]any that is nil until the
\* first append: a nil slice is null
marshalList(list) ==
  IF Len(list) = 0 THEN <<"null">>
  ELSE <<"[">> \o marshalElems(list, 1) \o <<"]">>

\* a non-nil []byte
Bytes(text) == [k |-> "bytes", v |-> text]

\* ExecByte(query, isList, args...)
ExecByteResult(db, isList) ==
  LET out(val, err) == [val |-> val, err |-> err]
  IN  IF db.fail = "prepare" THEN out(Nil, <<"failed to prepare query">>)
      ELSE IF db.fail = "query" THEN out(Nil, <<"failed to execute query">>)
      ELSE IF db.fail = "columns" THEN out(Nil, <<"failed to get columns">>)
      ELSE IF db.rs.broken THEN out(Nil, <<"rows iteration error">>)
      ELSE With([i \in 1..Len(db.rs.rows) |-> rowMap(db.rs.columns, db.rs.rows[i])],
                LAMBDA resultData :
                  IF isList = HAS_ONE /\ Len(resultData) >= 1
                  THEN out(Bytes(marshalMap(resultData[1])), <<>>)
                  ELSE out(Bytes(marshalList(resultData)), <<>>))

(***************************************************************************)
(* The statement and the cursor of a call, and the debug trace             *)
(***************************************************************************)
\* debugLog(query, args...): one message "sql:<query>, args:[<args>]" to the
\* sink when the client was built WithDebug, nothing otherwise
debugLog(enabled, query, args) ==
  IF enabled THEN <<Event("trace", query, args)>> ELSE <<>>

\* strings.Repeat("?,", n)
RECURSIVE Repeat(_)
Repeat(n) == IF n = 0 THEN <<>> ELSE <<"?", ",">> \o Repeat(n - 1)

\* strings.TrimSuffix(s, ","), kept whole
TrimSuffix_Kept(s) == s

\* strings.TrimSuffix(s, ",")
TrimSuffix(s) ==
  IF Len(s) > 0 /\ s[Len(s)] = "," THEN SubSeq(s, 1, Len(s) - 1) ELSE s

\* the character U+0060 that quotes an identifier of MySQL, which a string
\* of this notation cannot hold
Backquote == "<U+0060>"

\* fmt.Sprintf("CALL %s(%s)", procName, placeholders) of the Proc entry
\* points, the %s of the name between two backquotes; the procedure name is
\* one token of the text
procQuery(procName, args) ==
  <<"C", "A", "L", "L", " ", Backquote, procName, Backquote, "(">>
    \o TrimSuffix(Repeat(Len(args))) \o <<")">>

\* the deferred calls of an entry point, run last registered first when it
\* returns or panics, with rows.Close left out
deferred_StmtOnly(db) ==
  IF db.fail = "prepare" THEN <<>> ELSE <<Event("stmt.Close", <<>>, <<>>)>>

\* the deferred calls of an entry point, run last registered first when it
\* returns or panics: stmt.Close is deferred once Prepare succeeded,
\* rows.Close once Query succeeded
deferred(db) ==
  IF db.fail = "prepare" THEN <<>>
  ELSE IF db.fail = "query" THEN <<Event("stmt.Close", <<>>, <<>>)>>
  ELSE <<Event("rows.Close", <<>>, <<>>), Event("stmt.Close", <<>>, <<>>)>>

\* what an entry point does from its call to its return: debugLog(traced,
\* args), a return before Prepare when its arguments are rejected (early),
\* DB.Prepare(query), stmt.Query(args), its steps on the cursor and the
\* destination (body; recorded for Find, First, FirstCol and firstColAny),
\* and the deferred calls at its exit
Session(enabled, traced, query, args, db, early, body) ==
  debugLog(enabled, traced, args)
    \o (IF early THEN <<>>
        ELSE <<Event("Prepare", query, <<>>)>>
               \o (IF db.fail = "prepare" THEN <<>>
                   ELSE <<Event("Query", <<>>, args)>>)
               \o body
               \o deferred(db))

\* the query text of the callers of the model, and their stored procedure
QueryText == <<"S", "E", "L", "E", "C", "T">>
ProcName == "p"

\* the argument lists of the callers of the model
ArgLists == {[i \in 1..n |-> GoInt(i)] : n \in 0..MaxArgs}

(***************************************************************************)
(* State                                                                   *)
(***************************************************************************)
Goroutines == 1..MaxGoroutines

\* a goroutine that is not inside getFieldsMapping
Outside == [pc |-> "outside", t |-> "", mapping |-> <<>>, ok |-> FALSE]

VARIABLES
  fields,   \* client.fields: record type -> {column tag -> field ordinal}
  call,     \* the last call: entry point and everything it was given
  dest,     \* the caller's destination(s) after the call
  ret,      \* what the call returned
  debug,    \* client.debug, set by WithDebug when the client is built
  log,      \* the events of the last call, in order
  mu,       \* client.mu: the goroutine holding the write lock (0: none) and
            \* the goroutines holding the read lock
  gs        \* the goroutines inside getFieldsMapping: position and locals

vars == <<fields, call, dest, ret, debug, log, mu, gs>>

NoCall == [op |-> "none"]

Init ==
  /\ fields = <<>>
  /\ call = NoCall
  /\ dest = <<>>
  /\ ret = [err |-> <<>>]
  /\ debug \in BOOLEAN
  /\ log = <<>>
  /\ mu = [writer |-> 0, readers |-> {}]
  /\ gs = [g \in Goroutines |-> Outside]

\* destinations of Find that are not a pointer to a slice of a struct type:
\* a struct by value, a pointer to a struct, a pointer to []int
OtherFindDests ==
  { Dest("value", "City", Dirty("City")),
    Dest("struct", "City", Dirty("City")),
    Dest("sliceInt", "int", <<GoInt(9)>>) }

\* destinations of First that are not a pointer to a struct: a struct by
\* value, a pointer to a slice of structs
OtherFirstDests ==
  { Dest("value", "City", Dirty("City")),
    Dest("slice", "City", <<Dirty("City")>>) }

\* the caller is between two calls
Idle == call.op = "none"

\* client.Find(dest, query): dest a pointer to a slice of a record type, or
\* a destination of another shape
Find ==
  /\ Idle
  /\ \/ \E t \in Types :
       \E q \in QueriesOf(t) :
         \E db \in Databases(q), dest0 \in {<<>>, <<Dirty(t)>>} :
           \E r \in {FindResult(db, "slice", dest0, t, fields)} :
               /\ call' = [op |-> "Find", shape |-> "slice", t |-> t, db |-> db,
                           dest0 |-> dest0]
               /\ dest' = r.dest
               /\ ret' = [err |-> r.err, panic |-> r.panic]
               /\ fields' = r.fields
               /\ log' = Session(debug, QueryText, QueryText,
                                 <<>>, call'.db, ~PointerToSlice(call'.shape), r.ev)
               /\ UNCHANGED <<debug, mu, gs>>
     \/ \E d \in OtherFindDests :
          \E db \in Databases(QueryOneInt) :
            \E r \in {FindResult(db, d.shape, d.val, d.t, fields)} :
                /\ call' = [op |-> "Find", shape |-> d.shape, t |-> d.t, db |-> db,
                            dest0 |-> d.val]
                /\ dest' = r.dest
                /\ ret' = [err |-> r.err, panic |-> r.panic]
                /\ fields' = r.fields
                /\ log' = Session(debug, QueryText, QueryText,
                                  <<>>, call'.db, ~PointerToSlice(call'.shape), r.ev)
                /\ UNCHANGED <<debug, mu, gs>>

\* client.First(dest, query): dest a pointer to a record, or a destination
\* of another shape
First ==
  /\ Idle
  /\ \/ \E t \in Types :
       \E q \in QueriesOf(t) :
         \E db \in Databases(q), dest0 \in {ZeroStruct(t), Dirty(t)} :
           \E r \in {FirstResult(db, "struct", dest0, t, fields)} :
               /\ call' = [op |-> "First", shape |-> "struct", t |-> t, db |-> db,
                           dest0 |-> dest0]
               /\ dest' = r.dest
               /\ ret' = [err |-> r.err, found |-> r.found]
               /\ fields' = r.fields
               /\ log' = Session(debug, QueryText, QueryText,
                                 <<>>, call'.db, call'.shape # "struct", r.ev)
               /\ UNCHANGED <<debug, mu, gs>>
     \/ \E d \in OtherFirstDests :
          \E db \in Databases(QueryOneInt) :
            \E r \in {FirstResult(db, d.shape, d.val, d.t, fields)} :
                /\ call' = [op |-> "First", shape |-> d.shape, t |-> d.t, db |-> db,
                            dest0 |-> d.val]
                /\ dest' = r.dest
                /\ ret' = [err |-> r.err, found |-> r.found]
                /\ fields' = r.fields
                /\ log' = Session(debug, QueryText, QueryText,
                                  <<>>, call'.db, call'.shape # "struct", r.ev)
                /\ UNCHANGED <<debug, mu, gs>>

\* firstColAny[T](client, query): FirstColInt64, FirstColString and their
\* Proc variants
FirstColAny ==
  /\ Idle
  /\ \E T \in ElemTypes :
       \E q \in {QueryOneInt, QueryOneText, QueryCityPlain} :
         \E db \in Databases(q) :
           \E r \in {firstColAnyResult(db, T)} :
               /\ call' = [op |-> "firstColAny", T |-> T, db |-> db]
               /\ dest' = <<>>
               /\ ret' = [err |-> r.err, found |-> r.found, val |-> r.val,
                          next |-> r.next]
               /\ UNCHANGED fields
               /\ log' = Session(debug, QueryText, QueryText, <<>>, call'.db, FALSE, r.ev)
               /\ UNCHANGED <<debug, mu, gs>>

\* findArray[T](client, fieldName, query): FindArrayInt64, FindArrayString
\* and their Proc variants
FindArray ==
  /\ Idle
  /\ \E T \in ElemTypes, fieldName \in {"id", "name", "missing"} :
       \E db \in Databases(QueryCityPlain) :
         \E r \in {findArrayResult(db, fieldName, T)} :
             /\ call' = [op |-> "findArray", T |-> T, fieldName |-> fieldName, db |-> db]
             /\ dest' = <<>>
             /\ ret' = [err |-> r.err, val |-> r.val]
             /\ UNCHANGED fields
             /\ log' = Session(debug, QueryText, QueryText, <<>>, call'.db, FALSE, <<>>)
             /\ UNCHANGED <<debug, mu, gs>>

\* findMap[T, Y](client, keyField, valueField, query): FindMap and FindProcMap
FindMap ==
  /\ Idle
  /\ \E c \in MapCalls :
       \E db \in Databases(c.q) :
         \E r \in {findMapResult(db, c.keyField, c.valueField, c.K, c.Y, fields)} :
             /\ call' = [op |-> "findMap", K |-> c.K, Y |-> c.Y, keyField |-> c.keyField,
                         valueField |-> c.valueField, db |-> db]
             /\ dest' = <<>>
             /\ ret' = [err |-> r.err, val |-> r.val, panic |-> r.panic]
             /\ fields' = r.fields
             /\ log' = Session(debug, QueryText, QueryText,
                               <<>>, call'.db, call'.keyField = "", <<>>)
             /\ UNCHANGED <<debug, mu, gs>>

\* client.ExecByte(query, isList, args...)
ExecByte ==
  /\ Idle
  /\ \E isList \in {HAS_ONE, HAS_LIST}, args \in ArgLists :
       \E db \in Databases(QueryCityPlain) :
         \E r \in {ExecByteResult(db, isList)} :
             /\ call' = [op |-> "ExecByte", isList |-> isList, args |-> args, db |-> db]
             /\ dest' = <<>>
             /\ ret' = [err |-> r.err, val |-> r.val]
             /\ log' = Session(debug, QueryText, QueryText, args, db, FALSE, <<>>)
             /\ UNCHANGED <<fields, debug, mu, gs>>

\* client.ExecProcByte(procName, isList, args...): the rows of the CALL are
\* handled as ExecByte handles those of its query
ExecProcByte ==
  /\ Idle
  /\ \E isList \in {HAS_ONE, HAS_LIST}, args \in ArgLists :
       \E db \in Databases(QueryOneInt) :
         \E r \in {ExecByteResult(db, isList)} :
             /\ call' = [op |-> "ExecProcByte", isList |-> isList, args |-> args,
                         db |-> db]
             /\ dest' = <<>>
             /\ ret' = [err |-> r.err, val |-> r.val]
             /\ log' = Session(debug, <<ProcName>>, procQuery(ProcName, args), args,
                               db, FALSE, <<>>)
             /\ UNCHANGED <<fields, debug, mu, gs>>

\* the kinds of the scalar destinations of FirstCol in the model
ScalarKinds == {"Int64", "String", "Uint8", "Bool"}

\* a scalar destination that was set before the call
DirtyScalar(kind) == IF kind = "String" THEN GoStr(<<"o", "l", "d">>)
                     ELSE IF kind = "Bool" THEN GoBool(TRUE)
                     ELSE GoInt(9)

\* client.FirstCol(&scalar, query)
FirstCol ==
  /\ Idle
  /\ \E kind \in ScalarKinds :
       \E q \in {QueryOneInt, QueryOneText, QueryCityPlain} :
         \E db \in Databases(q) :
           \E r \in {FirstColResult(db, DirtyScalar(kind), kind)} :
               /\ call' = [op |-> "FirstCol", kind |-> kind, db |-> db,
                           dest0 |-> DirtyScalar(kind)]
               /\ dest' = r.dest
               /\ ret' = [err |-> r.err, found |-> r.found, next |-> r.next]
               /\ UNCHANGED fields
               /\ log' = Session(debug, QueryText, QueryText, <<>>, call'.db, FALSE, r.ev)
               /\ UNCHANGED <<debug, mu, gs>>

\* client.FindMultipleProc([]any{...}, procName)
FindMultipleProc ==
  /\ Idle
  /\ \E shapes \in SeqsUpTo(DestChoices, MaxDest) :
       \E db \in ProcDatabases :
         \E r \in {FindMultipleProcResult(db, shapes, fields)} :
             /\ call' = [op |-> "FindMultipleProc", dests0 |-> shapes, db |-> db]
             /\ dest' = r.dest
             /\ ret' = [err |-> r.err]
             /\ fields' = r.fields
             /\ log' = Session(debug, <<ProcName>>, procQuery(ProcName,
                               <<>>), <<>>, call'.db, Len(call'.dests0) = 0, <<>>)
             /\ UNCHANGED <<debug, mu, gs>>

\* the caller has used the results and goes on to its next call on the same
\* client, which keeps its cache
Return ==
  /\ ~Idle
  /\ call' = NoCall
  /\ dest' = <<>>
  /\ ret' = [err |-> <<>>]
  /\ UNCHANGED fields
  /\ log' = <<>>
  /\ UNCHANGED <<debug, mu, gs>>

Next ==
  \/ Find
  \/ First
  \/ FirstColAny
  \/ FindArray
  \/ FindMap
  \/ ExecByte
  \/ ExecProcByte
  \/ FirstCol
  \/ FindMultipleProc
  \/ Return

Spec == Init /\ [][Next]_vars

(***************************************************************************)
(* getFieldsMapping, statement by statement, called by several goroutines  *)
(* on one client.  A lookup in c.fields and a store into it take time: the *)
(* goroutine is at "reading" or "writing" while it runs.                   *)
(***************************************************************************)
At(g, pc) == gs[g].pc = pc

Goto(g, pc) == gs' = [gs EXCEPT ![g].pc = pc]

Untouched == UNCHANGED <<call, dest, ret, debug, log>>

\* a goroutine calls c.getFieldsMapping(t)
Enter(g) ==
  /\ At(g, "outside")
  /\ \E t \in Types : gs' = [gs EXCEPT ![g] = [Outside EXCEPT !.pc = "rlock", !.t = t]]
  /\ UNCHANGED <<fields, mu>>
  /\ Untouched

\* c.mu.RLock(): waits while a goroutine holds the write lock
RLock(g) ==
  /\ At(g, "rlock")
  /\ mu.writer = 0
  /\ mu' = [mu EXCEPT !.readers = @ \cup {g}]
  /\ Goto(g, "lookup")
  /\ UNCHANGED fields
  /\ Untouched

\* mapping, ok := c.fields[t] begins
Lookup(g) ==
  /\ At(g, "lookup")
  /\ Goto(g, "reading")
  /\ UNCHANGED <<fields, mu>>
  /\ Untouched

\* mapping, ok := c.fields[t] ends
LookupDone(g) ==
  /\ At(g, "reading")
  /\ gs' = [gs EXCEPT ![g].pc = "runlock",
                      ![g].ok = gs[g].t \in DOMAIN fields,
                      ![g].mapping = IF gs[g].t \in DOMAIN fields
                                     THEN fields[gs[g].t] ELSE <<>>]
  /\ UNCHANGED <<fields, mu>>
  /\ Untouched

\* c.mu.RUnlock(); if ok { return mapping }
RUnlock(g) ==
  /\ At(g, "runlock")
  /\ mu' = [mu EXCEPT !.readers = @ \ {g}]
  /\ Goto(g, IF gs[g].ok THEN "return" ELSE "lock")
  /\ UNCHANGED fields
  /\ Untouched

\* c.mu.Lock() that waits for the other writer only
Lock_IgnoresReaders(g) ==
  /\ At(g, "lock")
  /\ mu.writer = 0
  /\ mu' = [mu EXCEPT !.writer = g]
  /\ Goto(g, "build")
  /\ UNCHANGED fields
  /\ Untouched

\* c.mu.Lock(): waits while a goroutine holds the write lock or the read lock
Lock(g) ==
  /\ At(g, "lock")
  /\ mu.writer = 0
  /\ mu.readers = {}
  /\ mu' = [mu EXCEPT !.writer = g]
  /\ Goto(g, "build")
  /\ UNCHANGED fields
  /\ Untouched

\* mapping = make(map[string]int) and the loop over the fields of t
Build(g) ==
  /\ At(g, "build")
  /\ gs' = [gs EXCEPT ![g].pc = "store", ![g].mapping = buildMapping(gs[g].t)]
  /\ UNCHANGED <<fields, mu>>
  /\ Untouched

\* c.fields[t] = mapping begins
Store(g) ==
  /\ At(g, "store")
  /\ Goto(g, "writing")
  /\ UNCHANGED <<fields, mu>>
  /\ Untouched

\* c.fields[t] = mapping ends
StoreDone(g) ==
  /\ At(g, "writing")
  /\ fields' = [u \in DOMAIN fields \cup {gs[g].t} |->
                  IF u = gs[g].t THEN gs[g].mapping ELSE fields[u]]
  /\ Goto(g, "unlock")
  /\ UNCHANGED mu
  /\ Untouched

\* return mapping: the deferred c.mu.Unlock() runs
Unlock(g) ==
  /\ At(g, "unlock")
  /\ mu' = [mu EXCEPT !.writer = 0]
  /\ Goto(g, "return")
  /\ UNCHANGED fields
  /\ Untouched

\* the caller has the mapping and goes on
Leave(g) ==
  /\ At(g, "return")
  /\ gs' = [gs EXCEPT ![g] = Outside]
  /\ UNCHANGED <<fields, mu>>
  /\ Untouched

NextCache ==
  \/ \E g \in Goroutines : Enter(g)
  \/ \E g \in Goroutines : RLock(g)
  \/ \E g \in Goroutines : Lookup(g)
  \/ \E g \in Goroutines : LookupDone(g)
  \/ \E g \in Goroutines : RUnlock(g)
  \/ \E g \in Goroutines : Lock(g)
  \/ \E g \in Goroutines : Build(g)
  \/ \E g \in Goroutines : Store(g)
  \/ \E g \in Goroutines : StoreDone(g)
  \/ \E g \in Goroutines : Unlock(g)
  \/ \E g \in Goroutines : Leave(g)

SpecCache == Init /\ [][NextCache]_vars

(***************************************************************************)
(* Vocabulary of the properties                                            *)
(***************************************************************************)
TaggedFields(t) == {i \in 1..NumField(t) : Fields(t)[i].tag # ""}

\* every tagged field of t is of string, integer, float or bool kind
PrimitiveRecord(t) == \A i \in TaggedFields(t) : Fields(t)[i].kind \in PrimitiveKinds

\* the columns of the result include every tag of t
CoversTags(columns, t) ==
  \A i \in TaggedFields(t) : \E c \in 1..Len(columns) : columns[c] = Fields(t)[i].tag

ColumnOf(columns, tag) == CHOOSE c \in 1..Len(columns) : columns[c] = tag

\* the column value is of the representation the field kind stores: an
\* integer for the integer kinds, 0 or 1 for a bool (MySQL's tinyint(1)),
\* text for a string, a float for the float kinds
SameRepresentation(cell, kind) ==
  \/ cell.k = "int" /\ kind \in IntKinds \cup UintKinds
  \/ cell.k = "int" /\ kind = "Bool" /\ cell.v \in {0, 1}
  \/ cell.k = "string" /\ kind = "String"
  \/ cell.k = "float" /\ kind \in FloatKinds

\* the column value as a value of the field: the number itself, the text
\* itself, 1 as true
ValueOf(cell, kind) ==
  IF kind = "Bool" THEN GoBool(cell.v = 1) ELSE cell

\* the call went through prepare, execute and columns and ended without error
Succeeded == call.op # "none" /\ ret.err = <<>>

\* C1: Find on a record type of primitive tagged fields and a result whose
\* columns include every tag: after a successful call the slice has one
\* element per row, in row order, whatever it held before; in element i every
\* tagged field equals row i's value of its column, NULL giving the zero value.
C1_FindFillsSlice ==
  (call.op = "Find" /\ call.shape = "slice" /\ Succeeded /\ PrimitiveRecord(call.t)
     /\ CoversTags(call.db.rs.columns, call.t))
  => /\ Len(dest) = Len(call.db.rs.rows)
     /\ \A i \in 1..Len(call.db.rs.rows) :
          \A f \in TaggedFields(call.t) :
            LET kind == Fields(call.t)[f].kind
                cell == call.db.rs.rows[i][ColumnOf(call.db.rs.columns, Fields(call.t)[f].tag)]
            IN  /\ cell = NULL => dest[i][f] = Zero(kind)
                /\ SameRepresentation(cell, kind) => dest[i][f] = ValueOf(cell, kind)

\* C2: First on a result without rows returns found = false and no error and
\* leaves every field of the destination as it was; First on a first row
\* whose mapped columns are all NULL returns found = true and every mapped
\* field of primitive kind holds its zero value.
C2_FirstNoRowOrNullRow ==
  (call.op = "First" /\ call.shape = "struct" /\ call.db.fail = "none")
  => LET rows    == call.db.rs.rows
         columns == call.db.rs.columns
         mapped  == {c \in 1..Len(columns) :
                       \E f \in TaggedFields(call.t) : Fields(call.t)[f].tag = columns[c]}
     IN  /\ rows = <<>> => (ret.found = FALSE /\ ret.err = <<>> /\ dest = call.dest0)
         /\ (rows # <<>> /\ \A c \in mapped : rows[1][c] = NULL)
              => /\ ret.found = TRUE
                 /\ ret.err = <<>>
                 /\ \A f \in TaggedFields(call.t) :
                      (/\ Fields(call.t)[f].kind \in PrimitiveKinds
                       /\ \E c \in mapped : columns[c] = Fields(call.t)[f].tag)
                        => dest[f] = Zero(Fields(call.t)[f].kind)

\* the value of type T a column value stands for, where it is one
IsOfType(cell, T) ==
  \/ cell.k = "int" /\ T = "int64"
  \/ cell.k = "string" /\ T = "string"

ZeroValue(T) == IF T = "int64" THEN GoInt(0) ELSE GoStr(<<>>)

\* C3: firstColAny on a one-column result: no row gives (zero, false, nil), a
\* NULL first row gives (zero, true, nil), a first row holding v gives
\* (v, true, nil); found = false only without a row or with an error.
C3_FirstColAnyFound ==
  call.op = "firstColAny"
  => LET rows == call.db.rs.rows
         T    == call.T
         is(val, found) == ret.val = val /\ ret.found = found /\ ret.err = <<>>
     IN  /\ (call.db.fail = "none" /\ Len(call.db.rs.columns) = 1)
              => /\ rows = <<>> => is(ZeroValue(T), FALSE)
                 /\ (rows # <<>> /\ rows[1][1] = NULL) => is(ZeroValue(T), TRUE)
                 /\ (rows # <<>> /\ IsOfType(rows[1][1], T)) => is(rows[1][1], TRUE)
         /\ ret.found = FALSE => (rows = <<>> \/ ret.err # <<>>)

\* a NULL first row was found
C3_Witness ==
  /\ call.op = "firstColAny"
  /\ call.db.fail = "none"
  /\ Len(call.db.rs.columns) = 1
  /\ call.db.rs.rows # <<>>
  /\ call.db.rs.rows[1][1] = NULL
  /\ ret.found = TRUE
  /\ ret.val = ZeroValue(call.T)

\* the values of column c of the rows, top to bottom, without the NULLs
NonNullColumn(rows, c) ==
  SelectSeq([i \in 1..Len(rows) |-> rows[i][c]], LAMBDA cell : cell # NULL)

\* C4: findArray with fieldName among the columns returns the non-NULL values
\* of that column in row order: a NULL is dropped, an empty string is kept;
\* when there is no such value it returns nil with a nil error, never a
\* non-nil slice of length 0.
C4_FindArrayDropsNull ==
  call.op = "findArray"
  => /\ (ret.err = <<>> /\ \E c \in 1..Len(call.db.rs.columns) :
                              call.db.rs.columns[c] = call.fieldName)
          => LET c      == ColumnOf(call.db.rs.columns, call.fieldName)
                 values == NonNullColumn(call.db.rs.rows, c)
             IN  /\ values = <<>> => ret.val = Nil
                 /\ values # <<>> => (ret.val.k = "slice" /\ Len(ret.val.v) = Len(values))
                 /\ (values # <<>> /\ \A i \in 1..Len(values) : IsOfType(values[i], call.T))
                      => ret.val = Slice(values)
     /\ ret.val.k = "slice" => Len(ret.val.v) > 0
     /\ (call.db.fail = "none" /\ ~call.db.rs.broken
           /\ call.fieldName = "name" /\ call.T = "string") => ret.err = <<>>

\* a column with a NULL, an empty string and a text gave the two values
C4_Witness ==
  /\ call.op = "findArray"
  /\ call.T = "string"
  /\ call.fieldName = "name"
  /\ Len(call.db.rs.rows) = MaxRows
  /\ \E i \in 1..MaxRows : call.db.rs.rows[i][2] = NULL
  /\ \E i \in 1..MaxRows : call.db.rs.rows[i][2] = Txt(<<>>)
  /\ ret.err = <<>>
  /\ ret.val = Slice(<< Txt(<<>>) >>)

\* the text of a column value parses into T: any text is a string, an
\* integer literal is an int64
ParsesInto(cell, T) == T = "string" \/ ParseInt(asString(cell)).ok

\* the value of type T a column value denotes
Denotes(cell, T) ==
  IF T = "string" THEN GoStr(asString(cell)) ELSE GoInt(ParseInt(asString(cell)).n)

HasColumn(columns, name) == \E c \in 1..Len(columns) : columns[c] = name

\* C5: findMap with a named value field, K and V among int64 and string, key
\* and value texts that parse and distinct keys: the map has exactly one
\* entry per row whose key column is not NULL, a NULL value column giving the
\* zero value of V, and no entry for a row whose key column is NULL; nil with
\* a nil error when no row qualifies.
C5_FindMapDropsNullKey ==
  (/\ call.op = "findMap"
   /\ call.db.fail = "none" /\ ~call.db.rs.broken
   /\ call.K \in ElemTypes /\ call.Y \in ElemTypes
   /\ call.valueField # ""
   /\ HasColumn(call.db.rs.columns, call.keyField)
   /\ HasColumn(call.db.rs.columns, call.valueField))
  => LET rows  == call.db.rs.rows
         kc    == ColumnOf(call.db.rs.columns, call.keyField)
         vc    == ColumnOf(call.db.rs.columns, call.valueField)
         keyed == {i \in 1..Len(rows) : rows[i][kc] # NULL}
         parse == \A i \in keyed :
                    /\ ParsesInto(rows[i][kc], call.K)
                    /\ rows[i][vc] # NULL => ParsesInto(rows[i][vc], call.Y)
         distinct == \A i, j \in keyed : i # j => rows[i][kc] # rows[j][kc]
         keyAt(i)   == Denotes(rows[i][kc], call.K)
         valueAt(i) == IF rows[i][vc] = NULL THEN ZeroValue(call.Y)
                       ELSE Denotes(rows[i][vc], call.Y)
     IN  (parse /\ distinct)
         => /\ ret.err = <<>>
            /\ ~ret.panic
            /\ keyed = {} => ret.val = Nil
            /\ keyed # {}
                 => /\ ret.val.k = "map"
                    /\ DOMAIN ret.val.v = {keyAt(i) : i \in keyed}
                    /\ \A i \in keyed : ret.val.v[keyAt(i)] = valueAt(i)

\* a row with a NULL key between keyed rows left no entry, and a NULL value
\* was stored as the zero value
C5_Witness ==
  /\ call.op = "findMap"
  /\ call.K = "int64" /\ call.Y = "string"
  /\ call.keyField = "k" /\ call.valueField = "v"
  /\ call.db.rs.rows = << <<NULL, Txt(<<"a">>)>>, <<GoInt(2), NULL>> >>
  /\ ret.err = <<>>
  /\ ret.val.k = "map"
  /\ DOMAIN ret.val.v = {GoInt(2)}
  /\ ret.val.v[GoInt(2)] = GoStr(<<>>)

\* C6: a named field that is not a column of the result - findArray's
\* fieldName, findMap's keyField or non-empty valueField - is an error with
\* a nil result whenever prepare and execute succeeded, whatever the rows are:
\* the rows are not looked at before the column list is.
C6_MissingFieldIsError ==
  LET columns == call.db.rs.columns
      missing ==
        \/ call.op = "findArray" /\ ~HasColumn(columns, call.fieldName)
        \/ call.op = "findMap" /\ ~HasColumn(columns, call.keyField)
        \/ call.op = "findMap" /\ call.valueField # ""
             /\ ~HasColumn(columns, call.valueField)
  IN  (call.op \in {"findArray", "findMap"} /\ call.db.fail \notin {"prepare", "query"}
         /\ missing)
      => /\ ret.err # <<>>
         /\ ret.val = Nil
         /\ call.db.fail = "none"
              => ret.err[1] \in {"field not found in query results",
                                 "key field not found in query results",
                                 "value field not found in query results",
                                 "keyField cannot be empty"}

\* the missing field was reported on a result without rows
C6_Witness ==
  /\ call.op = "findArray"
  /\ call.fieldName = "missing"
  /\ call.db.fail = "none"
  /\ call.db.rs.rows = <<>>
  /\ ret.err = <<"field not found in query results", "missing">>
  /\ ret.val = Nil

\* the column value is what the field of this kind takes without error
Storable(cell, kind) ==
  \/ cell = NULL /\ kind \in PrimitiveKinds
  \/ SameRepresentation(cell, kind) /\ ~(kind \in UintKinds /\ cell.v < 0)

\* the value the field holds for the column value
Stored(cell, kind) == IF cell = NULL THEN Zero(kind) ELSE ValueOf(cell, kind)

\* the pairs <<field, column>> the tags of t match in the result columns
Matches(columns, t) ==
  {p \in TaggedFields(t) \X (1..Len(columns)) : columns[p[2]] = Fields(t)[p[1]].tag}

\* the result set is delivered whole and every value fits its field
ScansCleanly(rs, t) ==
  /\ ~rs.broken
  /\ \A i \in 1..Len(rs.rows) :
       \A p \in Matches(rs.columns, t) : Storable(rs.rows[i][p[2]], Fields(t)[p[1]].kind)

\* destination d, handed in as d0, holds result set rs: a slice has one
\* element per row, a record has the first row or is as it was without one
Populated(d, d0, rs) ==
  IF d0.shape = "slice"
  THEN /\ Len(d) = Len(rs.rows)
       /\ \A i \in 1..Len(rs.rows) :
            \A p \in Matches(rs.columns, d0.t) :
              d[i][p[1]] = Stored(rs.rows[i][p[2]], Fields(d0.t)[p[1]].kind)
  ELSE IF rs.rows = <<>> THEN d = d0.val
       ELSE \A p \in Matches(rs.columns, d0.t) :
              d[p[1]] = Stored(rs.rows[1][p[2]], Fields(d0.t)[p[1]].kind)

ValidDests(shapes) ==
  /\ Len(shapes) >= 1
  /\ \A i \in 1..Len(shapes) : shapes[i].shape \in {"slice", "struct"}

\* C7: FindMultipleProc with N valid destinations and M result sets,
\* 1 <= M <= N, that scan without error returns nil; destination i holds
\* result set i for i <= M and the destinations after M are as they were.
C7_MultiFillsInOrder ==
  (/\ call.op = "FindMultipleProc" /\ call.db.fail = "none"
   /\ ValidDests(call.dests0)
   /\ Len(call.db.sets) <= Len(call.dests0)
   /\ \A i \in 1..Len(call.db.sets) : ScansCleanly(call.db.sets[i], call.dests0[i].t))
  => /\ ret.err = <<>>
     /\ Len(dest) = Len(call.dests0)
     /\ \A i \in 1..Len(call.db.sets) : Populated(dest[i], call.dests0[i], call.db.sets[i])
     /\ \A i \in (Len(call.db.sets) + 1)..Len(call.dests0) : dest[i] = call.dests0[i].val

C7_Witness ==
  /\ call.op = "FindMultipleProc" /\ call.db.fail = "none"
  /\ ValidDests(call.dests0)
  /\ Len(call.dests0) = 2 /\ Len(call.db.sets) = 1
  /\ ScansCleanly(call.db.sets[1], call.dests0[1].t)
  /\ call.db.sets[1].rows # <<>>
  /\ ret.err = <<>>
  /\ dest[1] # call.dests0[1].val
  /\ dest[2] = call.dests0[2].val

\* C8: FindMultipleProc with N destinations and more than N result sets never
\* returns nil and never grows the destination list; when the first N result
\* sets scan without error into N >= 1 valid destinations the error is
\* "too many result sets, expected N".
C8_TooManyResultSets ==
  (/\ call.op = "FindMultipleProc" /\ call.db.fail = "none"
   /\ Len(call.db.sets) > Len(call.dests0))
  => /\ Len(dest) = Len(call.dests0)
     /\ (\A i \in 1..Len(call.dests0) : ~call.db.sets[i].broken) => ret.err # <<>>
     /\ (/\ ValidDests(call.dests0)
         /\ \A i \in 1..Len(call.dests0) :
              ScansCleanly(call.db.sets[i], call.dests0[i].t))
        => ret.err = <<"too many result sets, expected", Len(call.dests0)>>

C8_Witness ==
  /\ call.op = "FindMultipleProc" /\ call.db.fail = "none"
  /\ ValidDests(call.dests0)
  /\ Len(call.db.sets) > Len(call.dests0)
  /\ \A i \in 1..Len(call.dests0) : ScansCleanly(call.db.sets[i], call.dests0[i].t)
  /\ ret.err = <<"too many result sets, expected", Len(call.dests0)>>
  /\ dest[1] # call.dests0[1].val

\* the row has a negative integer in a column matched by an unsigned field
NegativeForUnsigned(columns, row, t) ==
  \E p \in Matches(columns, t) :
    /\ Fields(t)[p[1]].kind \in UintKinds
    /\ row[p[2]].k = "int" /\ row[p[2]].v < 0

\* C9: a negative integer for an unsigned field is an error of the call and
\* the field is not written: Find returns an error and leaves the slice,
\* First returns an error and leaves the field, FirstCol returns an error and
\* leaves the scalar, FindMultipleProc returns an error and leaves the
\* destination of that result set.
C9_NegativeToUnsigned ==
  /\ (call.op = "Find" /\ call.shape = "slice" /\ call.db.fail = "none"
        /\ \E i \in 1..Len(call.db.rs.rows) :
             NegativeForUnsigned(call.db.rs.columns, call.db.rs.rows[i], call.t))
     => (ret.err # <<>> /\ dest = call.dest0)
  /\ (call.op = "First" /\ call.shape = "struct" /\ call.db.fail = "none" /\ call.db.rs.rows # <<>>
        /\ NegativeForUnsigned(call.db.rs.columns, call.db.rs.rows[1], call.t))
     => /\ ret.err # <<>>
        /\ ret.found = FALSE
        /\ \A p \in Matches(call.db.rs.columns, call.t) :
             Fields(call.t)[p[1]].kind \in UintKinds => dest[p[1]] = call.dest0[p[1]]
  /\ (call.op = "FirstCol" /\ call.db.fail = "none" /\ call.kind \in UintKinds
        /\ Len(call.db.rs.columns) = 1 /\ call.db.rs.rows # <<>>
        /\ call.db.rs.rows[1][1].k = "int" /\ call.db.rs.rows[1][1].v < 0)
     => (ret.err # <<>> /\ ret.found = FALSE /\ dest = call.dest0)
  /\ (call.op = "FindMultipleProc" /\ call.db.fail = "none")
     => \A i \in 1..Len(call.dests0) :
          (/\ i <= Len(call.db.sets)
           /\ \A j \in 1..(i - 1) : ~call.db.sets[j].broken
           /\ call.dests0[i].shape \in {"slice", "struct"}
           /\ \E r \in 1..Len(call.db.sets[i].rows) :
                /\ call.dests0[i].shape = "struct" => r = 1
                /\ NegativeForUnsigned(call.db.sets[i].columns, call.db.sets[i].rows[r],
                                       call.dests0[i].t))
          => (ret.err # <<>> /\ dest[i] = call.dests0[i].val)

C9_Witness ==
  /\ call.op = "First" /\ call.shape = "struct" /\ call.db.fail = "none" /\ call.db.rs.rows # <<>>
  /\ NegativeForUnsigned(call.db.rs.columns, call.db.rs.rows[1], call.t)
  /\ ret.err = <<"failed to set field", "count",
                 "cannot convert negative value to unsigned type">>
  /\ ret.found = FALSE
  /\ dest = call.dest0

\* C10: Find and First on a record with a time.Time field whose column is
\* NULL in a row succeed and the field holds the zero time.
C10_NullTimeIsZeroTime ==
  /\ (call.op = "Find" /\ call.shape = "slice" /\ call.db.fail = "none" /\ ~call.db.rs.broken)
     => \A i \in 1..Len(call.db.rs.rows) :
          \A p \in Matches(call.db.rs.columns, call.t) :
            (Fields(call.t)[p[1]].kind = "Time" /\ call.db.rs.rows[i][p[2]] = NULL)
              => (ret.err = <<>> /\ Len(dest) = Len(call.db.rs.rows)
                    /\ dest[i][p[1]] = GoTime(0))
  /\ (call.op = "First" /\ call.shape = "struct" /\ call.db.fail = "none" /\ call.db.rs.rows # <<>>)
     => \A p \in Matches(call.db.rs.columns, call.t) :
          (Fields(call.t)[p[1]].kind = "Time" /\ call.db.rs.rows[1][p[2]] = NULL)
            => (ret.err = <<>> /\ ret.found = TRUE /\ dest[p[1]] = GoTime(0))

\* C11: a scalar single-column fetch on a result whose column count is not 1
\* returns an error with found = false, with or without rows; the
\* destination is as it was (FirstCol) or the zero value (firstColAny), and
\* rows.Next was not called.
C11_NotOneColumn ==
  (/\ call.op \in {"FirstCol", "firstColAny"}
   /\ call.db.fail = "none"
   /\ Len(call.db.rs.columns) # 1)
  => /\ ret.err = <<"expected a single column result, but got", Len(call.db.rs.columns)>>
     /\ ret.found = FALSE
     /\ ret.next = 0
     /\ call.op = "FirstCol" => dest = call.dest0
     /\ call.op = "firstColAny" => ret.val = ZeroValue(call.T)

C11_Witness ==
  /\ call.op = "FirstCol"
  /\ call.db.fail = "none"
  /\ Len(call.db.rs.columns) = 2
  /\ call.db.rs.rows # <<>>
  /\ call.db.rs.rows[1][1] = GoInt(7)
  /\ call.kind = "Int64"
  /\ ret.err # <<>> /\ ret.found = FALSE /\ dest = call.dest0

\* the destination kinds the scalar fetch is specified to support
SupportedScalarKinds == {"String", "Int", "Int64", "Float64", "Int8", "Uint8"}

\* C12: FirstCol with a destination whose kind is outside the supported set
\* returns an error that names the kind.
C12_UnsupportedKindIsError ==
  (call.op = "FirstCol" /\ call.kind \notin SupportedScalarKinds)
  => ret.err = <<"unsupported type", call.kind>>

\* C13: Find with a destination that is not a pointer to a slice of a struct
\* type, and First with a destination that is not a pointer to a struct,
\* return an error, do not panic and leave the destination as it was.
C13_ShapeMismatchIsError ==
  /\ (call.op = "Find" /\ call.shape # "slice")
     => (ret.err # <<>> /\ ~ret.panic /\ dest = call.dest0)
  /\ (call.op = "First" /\ call.shape # "struct")
     => (ret.err # <<>> /\ dest = call.dest0)

\* the text of a JSON array of the given element texts
JsonArray(elems) ==
  LET RECURSIVE Join(_)
      Join(i) == IF i > Len(elems) THEN <<>>
                 ELSE (IF i = 1 THEN <<>> ELSE <<",">>) \o elems[i] \o Join(i + 1)
  IN  <<"[">> \o Join(1) \o <<"]">>

\* the text of the JSON object of a row
JsonObject(columns, row) == marshalMap(rowMap(columns, row))

\* C14: ExecByte that succeeds gives, for HAS_ONE and at least one row, the
\* JSON object of the first row; in every other case the JSON array of the
\* objects of all rows in row order, the empty array [] for zero rows.
C14_ExecByteShape ==
  (call.op = "ExecByte" /\ call.db.fail = "none" /\ ~call.db.rs.broken)
  => LET rows    == call.db.rs.rows
         columns == call.db.rs.columns
     IN  /\ ret.err = <<>>
         /\ IF call.isList = HAS_ONE /\ Len(rows) >= 1
            THEN ret.val = Bytes(JsonObject(columns, rows[1]))
            ELSE ret.val = Bytes(JsonArray([i \in 1..Len(rows) |->
                                              JsonObject(columns, rows[i])]))

\* the events of one sort in the log of the last call
EventsOf(e) == SelectSeq(log, LAMBDA ev : ev.e = e)

\* the entry points that call a stored procedure
ProcOps == {"ExecProcByte", "FindMultipleProc"}

\* the arguments the caller handed to the last call
ArgsOf(c) == IF c.op \in {"ExecByte", "ExecProcByte"} THEN c.args ELSE <<>>

\* CALL, the quoted name, and n question marks separated by commas between
\* parentheses
CallText(procName, n) ==
  <<"C", "A", "L", "L", " ", Backquote, procName, Backquote, "(">>
    \o [i \in 1..(2 * n - 1) |-> IF i % 2 = 1 THEN "?" ELSE ","]
    \o <<")">>

\* C15: the statement a Proc entry point prepares is CALL, the quoted
\* procedure name and, between parentheses, one ? per argument separated by
\* commas (nothing for no argument); the arguments it executes the statement
\* with are the caller's, as many as there are placeholders.
C15_CallText ==
  (call.op \in ProcOps /\ Len(EventsOf("Prepare")) > 0)
  => /\ Len(EventsOf("Prepare")) = 1
     /\ EventsOf("Prepare")[1].text = CallText(ProcName, Len(ArgsOf(call)))
     /\ \A i \in 1..Len(EventsOf("Query")) :
          /\ EventsOf("Query")[i].args = ArgsOf(call)
          /\ Len(SelectSeq(EventsOf("Prepare")[1].text, LAMBDA c : c = "?"))
               = Len(EventsOf("Query")[i].args)

C15_Witness ==
  /\ call.op = "ExecProcByte"
  /\ call.args = <<GoInt(1), GoInt(2)>>
  /\ call.db.fail = "none"
  /\ EventsOf("Prepare")
       = <<Event("Prepare",
                 <<"C", "A", "L", "L", " ", Backquote, "p", Backquote, "(", "?", ",",
                   "?", ")">>, <<>>)>>
  /\ EventsOf("Query") = <<Event("Query", <<>>, <<GoInt(1), GoInt(2)>>)>>

\* the positions of the events of one sort in the log of the last call
PositionsOf(e) == {i \in 1..Len(log) : log[i].e = e}

\* the last call prepared a statement; it opened a cursor
Prepared == PositionsOf("Prepare") # {} /\ call.db.fail # "prepare"
Opened   == PositionsOf("Query") # {} /\ call.db.fail \notin {"prepare", "query"}

\* C16: however an entry point ends (result, error at any step, panic), the
\* statement it prepared is closed exactly once and the cursor it opened is
\* closed exactly once, the cursor before the statement, both after
\* everything else the call did; what was never prepared or opened is never
\* closed.
C16_ReleasedOnEveryExit ==
  ~Idle
  => /\ Cardinality(PositionsOf("stmt.Close")) = (IF Prepared THEN 1 ELSE 0)
     /\ Cardinality(PositionsOf("rows.Close")) = (IF Opened THEN 1 ELSE 0)
     /\ Prepared => log[Len(log)].e = "stmt.Close"
     /\ Opened => log[Len(log) - 1].e = "rows.Close"

C16_Witness ==
  /\ call.op = "Find"
  /\ call.shape = "slice"
  /\ call.db.fail = "none"
  /\ call.db.rs.broken
  /\ call.db.rs.rows = <<>>
  /\ ret.err # <<>>
  /\ ~debug
  /\ log = <<Event("Prepare", QueryText, <<>>), Event("Query", <<>>, <<>>),
             Step("Columns"), Step("Next:false"),
             Event("rows.Close", <<>>, <<>>), Event("stmt.Close", <<>>, <<>>)>>

\* the text the last call hands to Prepare
FinalText(c) ==
  IF c.op \in ProcOps THEN CallText(ProcName, Len(ArgsOf(c))) ELSE QueryText

\* C17: with tracing enabled every call first gives the trace sink, once,
\* the final query text and the arguments - for a Proc entry point the
\* synthesized CALL statement; with tracing disabled the sink gets nothing.
C17_TraceGetsFinalText ==
  ~Idle
  => IF debug
     THEN /\ PositionsOf("trace") = {1}
          /\ log[1] = Event("trace", FinalText(call), ArgsOf(call))
     ELSE PositionsOf("trace") = {}

\* the mapping of a record type: every non-empty db tag to the ordinal of
\* the field that declares it
TagMapping(t) ==
  [tag \in {Fields(t)[i].tag : i \in TaggedFields(t)} |->
     CHOOSE i \in TaggedFields(t) : Fields(t)[i].tag = tag]

\* the goroutines in the middle of a lookup in the cache, of a store into it
Reading == {g \in Goroutines : At(g, "reading")}
Writing == {g \in Goroutines : At(g, "writing")}

\* C18: with several goroutines in getFieldsMapping in any interleaving, no
\* goroutine stores into the cache while another one reads or stores
\* (stores are under the write lock, lookups under the read lock); every call
\* returns the tag -> ordinal mapping of the non-empty db tags of its type;
\* and what the cache holds for a type is always that one value.
C18_CacheUnderConcurrency ==
  /\ \A w \in Writing : Reading = {} /\ Writing = {w} /\ mu.writer = w
  /\ \A g \in Reading : g \in mu.readers /\ mu.writer = 0
  /\ \A g \in Goroutines : At(g, "return") => gs[g].mapping = TagMapping(gs[g].t)
  /\ \A t \in DOMAIN fields : fields[t] = TagMapping(t)

\* two goroutines missed the same type: one has stored its mapping and
\* returns while the other is storing its own, no goroutine reading
C18_Witness ==
  /\ At(1, "return")
  /\ At(2, "writing")
  /\ gs[1].t = "City"
  /\ gs[2].t = "City"
  /\ ~gs[1].ok
  /\ gs[1].mapping = [id |-> 1, name |-> 2]
  /\ "City" \in DOMAIN fields

\* C19: a Find that returns an error - from the scan of a row, from setting
\* a field of a row, or from the cursor after the row loop - leaves the
\* caller's slice holding exactly what it held before the call.
C19_FindAllOrNothing ==
  (call.op = "Find" /\ call.shape = "slice" /\ ret.err # <<>>)
  => dest = call.dest0

\* the first row is scanned and set, the second one fails
C19_Witness ==
  /\ call.op = "Find"
  /\ call.shape = "slice"
  /\ call.t = "Stat"
  /\ call.db.fail = "none"
  /\ Len(call.db.rs.rows) = 2
  /\ ~NegativeForUnsigned(call.db.rs.columns, call.db.rs.rows[1], call.t)
  /\ NegativeForUnsigned(call.db.rs.columns, call.db.rs.rows[2], call.t)
  /\ ret.err = <<"failed to set field", "count",
                 "cannot convert negative value to unsigned type">>
  /\ call.dest0 = <<Dirty("Stat")>>
  /\ dest = call.dest0

\* the cursor of a single-statement call fails on its first advance
FailsOnFirstNext(db) == db.fail = "none" /\ db.rs.rows = <<>> /\ db.rs.broken

\* the cursor of a procedure call fails in a result set that the call gets
\* to, having a destination for it
FailsInReachedSet(db, n) ==
  /\ db.fail = "none"
  /\ \E i \in 1..n :
       /\ i <= Len(db.sets)
       /\ db.sets[i].broken
       /\ \A j \in 1..(i - 1) : ~db.sets[j].broken

\* C20: in First, FirstCol, firstColAny and FindMultipleProc an error of the
\* cursor while advancing (Next false because of an error, NextResultSet
\* false because of an error) makes the call return an error.
C20_CursorErrorIsReturned ==
  /\ (call.op = "First" /\ call.shape = "struct" /\ FailsOnFirstNext(call.db))
     => ret.err # <<>>
  /\ (call.op \in {"FirstCol", "firstColAny"} /\ FailsOnFirstNext(call.db))
     => ret.err # <<>>
  /\ (call.op = "FindMultipleProc" /\ FailsInReachedSet(call.db, Len(call.dests0)))
     => ret.err # <<>>

\* C21: the mapping of a type is computed and stored at most once: no
\* goroutine computes the mapping of a type, or stores into the cache for a
\* type, that the cache already holds.
C21_BuiltOncePerType ==
  \A g \in Goroutines :
    gs[g].pc \in {"build", "store", "writing"} => gs[g].t \notin DOMAIN fields

\* C22: findMap leaves out a row whose key column is not NULL but does not
\* parse into the key type: every key of the result is the key of a row
\* whose key column parses, and without such a row the result is nil.
C22_UnparsableKeyExcluded ==
  (/\ call.op = "findMap"
   /\ call.db.fail = "none" /\ ~call.db.rs.broken
   /\ call.K \in ElemTypes /\ call.Y \in ElemTypes
   /\ call.valueField # ""
   /\ HasColumn(call.db.rs.columns, call.keyField)
   /\ HasColumn(call.db.rs.columns, call.valueField)
   /\ ret.err = <<>> /\ ~ret.panic)
  => LET rows  == call.db.rs.rows
         kc    == ColumnOf(call.db.rs.columns, call.keyField)
         keyed == {i \in 1..Len(rows) :
                     rows[i][kc] # NULL /\ ParsesInto(rows[i][kc], call.K)}
     IN  IF keyed = {} THEN ret.val = Nil
         ELSE /\ ret.val.k = "map"
              /\ DOMAIN ret.val.v = {Denotes(rows[i][kc], call.K) : i \in keyed}

\* the destination First leaves for one result set and one initial value
AfterFirst(rs, t, val) ==
  FirstResult([fail |-> "none", rs |-> rs], "struct", val, t, fields).dest

\* C23: a single-record destination of FindMultipleProc holds, after its
\* result set was handled, what First leaves in the same destination for the
\* same result set: the fields are set in place, an untagged or unmatched
\* field keeps its value, zero rows leave the destination as it was.
C23_RecordBranchIsFirst ==
  (call.op = "FindMultipleProc" /\ call.db.fail = "none")
  => \A i \in 1..Len(call.dests0) :
       (/\ call.dests0[i].shape = "struct"
        /\ i <= Len(call.db.sets)
        /\ \A j \in 1..(i - 1) : ~call.db.sets[j].broken
        /\ i = 1 \/ ret.err = <<>>)
       => dest[i] = AfterFirst(call.db.sets[i], call.dests0[i].t, call.dests0[i].val)

\* the destinations of the last FindMultipleProc call as they were handed in
ValuesBefore(c) == [i \in 1..Len(c.dests0) |-> c.dests0[i].val]

\* C24: FindMultipleProc with a destination that is not a pointer to a
\* struct or to a slice returns an error whatever result sets the procedure
\* yields, and no destination has been modified.
C24_MultiShapeMismatchFirst ==
  (/\ call.op = "FindMultipleProc"
   /\ call.db.fail = "none"
   /\ \E i \in 1..Len(call.dests0) : call.dests0[i].shape \notin {"slice", "struct"})
  => /\ ret.err # <<>>
     /\ dest = ValuesBefore(call)

\* the positions in the log of the last call of the events of some sorts
PositionsIn(es) == {i \in 1..Len(log) : log[i].e \in es}

Fetches   == {"Next:true", "Next:false"}
Failures  == {"Columns:error", "Scan:error", "Set:error"}
Releases  == {"rows.Close", "stmt.Close"}

\* the last call went through a materializer entry point with a destination
\* of the shape it takes
Materializes ==
  \/ call.op = "Find" /\ call.shape = "slice"
  \/ call.op = "First" /\ call.shape = "struct"
  \/ call.op \in {"FirstCol", "firstColAny"}

\* C25: in every call of Find, First, FirstCol and firstColAny, Prepare comes
\* before Query, Query before Columns, Columns before the first Next; a Scan
\* directly follows a Next that returned true; the destination is set
\* directly after a successful Scan; First, FirstCol and firstColAny call
\* Next once when they get to the rows and never twice, Find calls Next
\* once per row and once more for the end unless a row fails; after a step
\* that failed nothing follows but the release of the cursor and statement.
C25_CursorProtocol ==
  Materializes
  => /\ \A i \in PositionsIn({"Query"}) : log[i - 1].e = "Prepare"
     /\ \A i \in PositionsIn({"Columns", "Columns:error"}) : log[i - 1].e = "Query"
     /\ \A i \in PositionsIn(Fetches) :
          log[i - 1].e \in {"Columns", "Set"}
     /\ \A i \in PositionsIn({"Scan", "Scan:error"}) : log[i - 1].e = "Next:true"
     /\ \A i \in PositionsIn({"Set", "Set:error"}) : log[i - 1].e = "Scan"
     /\ \A i \in PositionsIn(Failures \cup {"Next:false"}) :
          \A j \in (i + 1)..Len(log) : log[j].e \in Releases
     /\ call.op # "Find"
          => /\ Cardinality(PositionsIn(Fetches)) <= 1
             /\ (/\ PositionsIn({"Columns"}) # {}
                 /\ call.op = "First" \/ Len(call.db.rs.columns) = 1)
                => Cardinality(PositionsIn(Fetches)) = 1
     /\ (call.op = "Find" /\ PositionsIn({"Columns"}) # {}
           /\ PositionsIn(Failures) = {})
          => /\ Cardinality(PositionsIn({"Next:true"})) = Len(call.db.rs.rows)
             /\ Cardinality(PositionsIn({"Next:false"})) = 1
     /\ call.db.fail = "prepare" => PositionsIn({"Query"}) = {}
     /\ call.db.fail = "query" => PositionsIn({"Columns", "Columns:error"}) = {}

\* First on a result of two rows fetches, scans and sets the first row only
C25_Witness ==
  /\ call.op = "First"
  /\ call.shape = "struct"
  /\ call.db.fail = "none"
  /\ Len(call.db.rs.rows) = 2
  /\ ~debug
  /\ ret.err = <<>>
  /\ log = <<Event("Prepare", QueryText, <<>>), Event("Query", <<>>, <<>>),
             Step("Columns"), Step("Next:true"), Step("Scan"), Step("Set"),
             Event("rows.Close", <<>>, <<>>), Event("stmt.Close", <<>>, <<>>)>>

\* what a field of the given kind gets from a column value: whether the scan
\* of the column fails, and what setting the field does
FieldFrom(cell, kind) ==
  LET c == convertAssign(createNullScanner(kind), cell)
  IN  [scanErr |-> c.err, r |-> setFieldFromNullScanner(c.sc, kind)]

\* every column of the row that a tag of t matches scans into its field
RowFits(columns, row, t) ==
  \A p \in Matches(columns, t) :
    LET f == FieldFrom(row[p[2]], Fields(t)[p[1]].kind)
    IN  ~f.scanErr /\ f.r.err = <<>>

\* record item, which was before, holds in every field that a tag matches
\* what that field gets from the column of its tag
RowAligned(item, before, columns, row, t) ==
  \A p \in Matches(columns, t) :
    LET f == FieldFrom(row[p[2]], Fields(t)[p[1]].kind)
    IN  item[p[1]] = IF f.r.set THEN f.r.val ELSE before[p[1]]

C27_FindMapReturns ==
  call.op = "findMap" => ~ret.panic

\* handling result set i for destination i of the call raises an error
FailsAt(c, i) ==
  \/ c.db.fail # "none"
  \/ c.dests0[i].shape \notin {"slice", "struct"}
  \/ /\ c.dests0[i].shape = "slice"
     /\ \/ c.db.sets[i].broken
        \/ \E r \in 1..Len(c.db.sets[i].rows) :
             ~RowFits(c.db.sets[i].columns, c.db.sets[i].rows[r], c.dests0[i].t)
  \/ /\ c.dests0[i].shape = "struct"
     /\ c.db.sets[i].rows # <<>>
     /\ ~RowFits(c.db.sets[i].columns, c.db.sets[i].rows[1], c.dests0[i].t)

\* the index at which a failed call raised its error: the first result set
\* whose handling fails, or the one past the last destination
FailedIndex(c) ==
  LET upto  == IF Len(c.dests0) < Len(c.db.sets) THEN Len(c.dests0) ELSE Len(c.db.sets)
      fails == {i \in 1..upto : FailsAt(c, i)}
  IN  IF fails = {} THEN Len(c.dests0) + 1
      ELSE CHOOSE i \in fails : \A j \in fails : i <= j

\* C28: when FindMultipleProc returns an error raised at result set k, every
\* destination from k on holds what it held before the call and every
\* destination before k holds its whole result set: no destination is left
\* with a part of a record or of a slice.
C28_MultiFailureFrame ==
  (call.op = "FindMultipleProc" /\ Len(call.dests0) >= 1 /\ ret.err # <<>>)
  => \A i \in 1..Len(call.dests0) :
       IF i < FailedIndex(call)
       THEN Populated(dest[i], call.dests0[i], call.db.sets[i])
       ELSE dest[i] = call.dests0[i].val

\* the first result set fills the slice, the second one fails in the record
C28_Witness ==
  /\ call.op = "FindMultipleProc"
  /\ call.db.fail = "none"
  /\ Len(call.dests0) = 2
  /\ call.dests0[1] = Dest("slice", "City", <<Dirty("City")>>)
  /\ call.dests0[2] = Dest("struct", "Stat", Dirty("Stat"))
  /\ call.db.sets = << ResultSet(<<"id", "name">>, << <<GoInt(7), Txt(<<"a">>)>> >>, FALSE),
                       ResultSet(<<"count">>, << <<GoInt(0 - 1)>> >>, FALSE) >>
  /\ FailedIndex(call) = 2
  /\ ret.err # <<>>
  /\ dest[1] = << <<GoInt(7), GoStr(<<"a">>), GoStr(<<>>)>> >>
  /\ dest[2] = Dirty("Stat")

\* C29: First leaves the destination as it was whenever it returns an error,
\* be it from prepare, execute, columns, scan, or from setting the field of
\* any mapped column of the first row.
C29_FirstErrorLeavesDest ==
  (call.op = "First" /\ call.shape = "struct" /\ ret.err # <<>>)
  => dest = call.dest0

\* integer n, an int64, is a value of the integer kind
Representable(kind, n) ==
  IF kind \in IntKinds
  THEN Bits(kind) = 64
         \/ (0 - Pow2(Bits(kind) - 1) <= n /\ n < Pow2(Bits(kind) - 1))
  ELSE 0 <= n /\ (Bits(kind) = 64 \/ n < Pow2(Bits(kind)))

\* C30: an integer column value v reaches a field of integer kind only when
\* v is a value of that kind, and the call returns an error otherwise: First
\* on a first row with an integer in a column of an integer field either
\* stores that very integer or fails.
C30_IntegerWidthChecked ==
  (call.op = "First" /\ call.shape = "struct" /\ call.db.fail = "none"
     /\ call.db.rs.rows # <<>>)
  => \A p \in Matches(call.db.rs.columns, call.t) :
       LET kind == Fields(call.t)[p[1]].kind
           cell == call.db.rs.rows[1][p[2]]
       IN  (kind \in IntKinds \cup UintKinds /\ cell # NULL /\ cell.k = "int")
           => IF Representable(kind, cell.v)
              THEN ret.err = <<>> => dest[p[1]] = cell
              ELSE ret.err # <<>>

====
